---- MODULE Spec2Model ----
(***************************************************************************)
(* A model of modularyze.ConfBuilder (src/modularyze/modularyze.py) and of *)
(* its constructor factories (src/modularyze/construct.py).                *)
(*                                                                         *)
(* Python values are records tagged by the field t; an ordered dict is a   *)
(* sequence of <<key, value>> pairs with unique keys; a dict that is only  *)
(* looked up by key is a function whose domain is a set of strings.        *)
(*                                                                         *)
(* A value computed once and used several times is bound by                *)
(*     CHOOSE r \in {F(x) : x \in {value}} : TRUE                          *)
(* which is F(value) with value evaluated a single time.                   *)
(***************************************************************************)
EXTENDS Bags, FiniteSets, Integers, Sequences, TLC

VARIABLES
    registered_callables,        \* self.registered_callables: tag -> object
    registered_multi_callables,  \* self.registered_multi_callables: prefix -> object
    yaml_constructors,           \* self.yaml.Constructor.yaml_constructors (class level)
    yaml_multi_constructors,     \* self.yaml.Constructor.yaml_multi_constructors (ordered)
    warned,                      \* bag of the warnings.warn calls of the last call
    last,                        \* the last call: its name, its arguments, the state before it
    result,                      \* what the last call returned, or the error it raised
    hashed,                      \* an earlier hash call kept for comparison: its arguments and value
    pc,                          \* thread -> position in the call it runs
    job,                         \* thread -> the call it runs
    local,                       \* thread -> the locals of its vanilla_load frame
    tresult,                     \* thread -> what its call returned
    other,                       \* the instance the calls are not made on: its name and registries
    dict_id                      \* id() of the dict object that yaml_constructors holds

vars == <<registered_callables, registered_multi_callables, yaml_constructors,
          yaml_multi_constructors, warned, last, result, hashed,
          pc, job, local, tresult, other, dict_id>>

registry == <<registered_callables, registered_multi_callables>>
tables == <<yaml_constructors, yaml_multi_constructors>>
threads == <<pc, job, local, tresult, dict_id>>

-----------------------------------------------------------------------------
(* Strings                                                                 *)

\* str.rstrip(c) for a one-character c
RECURSIVE rstrip(_, _)
rstrip(s, c) ==
    IF Len(s) > 0 /\ SubSeq(s, Len(s), Len(s)) = c
    THEN rstrip(SubSeq(s, 1, Len(s) - 1), c)
    ELSE s

\* str.lstrip(c) for a one-character c
RECURSIVE lstrip(_, _)
lstrip(s, c) ==
    IF Len(s) > 0 /\ SubSeq(s, 1, 1) = c
    THEN lstrip(SubSeq(s, 2, Len(s)), c)
    ELSE s

\* str.startswith
startswith(s, p) == Len(p) <= Len(s) /\ SubSeq(s, 1, Len(p)) = p

\* the index of the first occurrence of the character c in s at or after i, 0 if none
RECURSIVE find(_, _, _)
find(s, c, i) ==
    IF i > Len(s) THEN 0
    ELSE IF SubSeq(s, i, i) = c THEN i
    ELSE find(s, c, i + 1)

\* the characters the model's strings are drawn from, in code point order
Alphabet == "!\"'.0123456789:ABDFNT[]abcdefgiklnorstuwx{}"

ord(c) == CHOOSE i \in 1..Len(Alphabet) : SubSeq(Alphabet, i, i) = c

\* Python's s < t on str
RECURSIVE StrLess(_, _)
StrLess(s, t) ==
    IF Len(t) = 0 THEN FALSE
    ELSE IF Len(s) = 0 THEN TRUE
    ELSE IF SubSeq(s, 1, 1) = SubSeq(t, 1, 1)
         THEN StrLess(SubSeq(s, 2, Len(s)), SubSeq(t, 2, Len(t)))
         ELSE ord(SubSeq(s, 1, 1)) < ord(SubSeq(t, 1, 1))

Digits == "0123456789"

IsDigit(c) == find(Digits, c, 1) > 0

RECURSIVE AllDigits(_)
AllDigits(s) ==
    Len(s) = 0 \/ (IsDigit(SubSeq(s, 1, 1)) /\ AllDigits(SubSeq(s, 2, Len(s))))

\* int(s) for a non-empty string of decimal digits
RECURSIVE StrToInt(_)
StrToInt(s) ==
    IF Len(s) = 0 THEN 0
    ELSE 10 * StrToInt(SubSeq(s, 1, Len(s) - 1))
         + (find(Digits, SubSeq(s, Len(s), Len(s)), 1) - 1)

\* str(n) for n >= 0
RECURSIVE IntToStr(_)
IntToStr(n) ==
    IF n < 10 THEN SubSeq(Digits, n + 1, n + 1)
    ELSE IntToStr(n \div 10) \o SubSeq(Digits, (n % 10) + 1, (n % 10) + 1)

-----------------------------------------------------------------------------
(* Ordered dicts: sequences of <<key, value>> pairs with unique keys       *)

OKeys(d) == {d[i][1] : i \in 1..Len(d)}

OHas(d, k) == k \in OKeys(d)

OGet(d, k) == d[CHOOSE i \in 1..Len(d) : d[i][1] = k][2]

\* d[k] = v: an existing key keeps its position, a new one is appended
OPut(d, k, v) ==
    IF OHas(d, k)
    THEN [i \in 1..Len(d) |-> IF d[i][1] = k THEN <<k, v>> ELSE d[i]]
    ELSE Append(d, <<k, v>>)

\* d.update(e)
RECURSIVE OUpdate(_, _)
OUpdate(d, e) ==
    IF Len(e) = 0 THEN d
    ELSE OUpdate(OPut(d, e[1][1], e[1][2]), Tail(e))

\* the dict as a function of its keys
AsFn(d) == [k \in OKeys(d) |-> OGet(d, k)]

-----------------------------------------------------------------------------
(* The callables of the test-suite: src/tests/utils.py                     *)

Classes == {"Foo", "Bar", "Dice"}

\* the module tests.utils and the package tests that holds it, registered
\* as namespaces
Modules == {"utils", "tests"}

\* obj.__name__: the modules are imported as tests.utils and
\* tests.test_modularyze
name(obj) ==
    IF obj = "utils" THEN "tests.utils"
    ELSE IF obj = "test_modularyze" THEN "tests.test_modularyze"
    ELSE obj

\* getattr(cls, "from_yaml", None) is not None
has_from_yaml(obj) == obj = "Dice"

\* the members of a namespace object: getattr(module, attr), None when absent
getattr(obj, attr) ==
    IF obj = "utils" /\ attr \in Classes THEN attr
    ELSE IF obj = "tests" /\ attr = "utils" THEN "utils"
    ELSE IF obj = "test_modularyze"
                /\ attr \in Classes \cup {"ComposerError", "YAMLError", "utils", "os"} THEN attr
    ELSE IF obj = "os" /\ attr \in {"PathLike", "_Environ"} THEN attr
    ELSE IF obj = "os" /\ attr = "error" THEN "OSError"
    ELSE IF obj = "os" /\ attr = "sep" THEN "/"
    ELSE "None"

-----------------------------------------------------------------------------
(* Python values                                                           *)

PyNone == [t |-> "NoneType"]
PyBool(b) == [t |-> "bool", b |-> b]
PyInt(i) == [i |-> i, t |-> "int"]
PyStr(s) == [s |-> s, t |-> "str"]
PyList(items) == [t |-> "list", items |-> items]
PyDict(pairs) == [t |-> "dict", pairs |-> pairs]

\* an instance of cls, with what its __init__ received
PyObject(cls, args, kwargs) == [t |-> "object", cls |-> cls, args |-> args, kwargs |-> kwargs]

\* a raised exception travelling up the call stack
Error(e) == [t |-> "error", e |-> e]

IsError(v) == v.t = "error"

\* bool(v) for the values `if not args` / `if kwargs` / `if value` test
truthy(v) ==
    CASE v.t = "NoneType" -> FALSE
      [] v.t = "bool" -> v.b
      [] v.t = "int" -> v.i # 0
      [] v.t = "str" -> Len(v.s) > 0
      [] v.t = "list" -> Len(v.items) > 0
      [] v.t = "dict" -> Len(v.pairs) > 0
      [] OTHER -> TRUE

\* params.get(key, default) on a dict with constructed keys
dict_get(d, key, default) ==
    IF OHas(d.pairs, PyStr(key)) THEN OGet(d.pairs, PyStr(key)) ELSE default

\* cls(*args, **kwargs): args a list value's items, kwargs a dict value's pairs
\* Foo.__init__(self, *args, **kwargs), Bar (object.__init__), Dice.__init__(self, a, b)
call(cls, args, kwargs) ==
    LET strkeys == \A i \in 1..Len(kwargs) : kwargs[i][1].t = "str"
        kwnames == {kwargs[i][1].s : i \in 1..Len(kwargs)}
        positional == IF Len(args) >= 1 THEN {"a"} \cup (IF Len(args) >= 2 THEN {"b"} ELSE {})
                      ELSE {}
    IN  IF ~strkeys THEN Error("TypeError")
        ELSE CASE cls = "Foo" -> PyObject("Foo", args, kwargs)
               [] cls = "Bar" ->
                    IF Len(args) = 0 /\ Len(kwargs) = 0
                    THEN PyObject("Bar", <<>>, <<>>)
                    ELSE Error("TypeError")
               [] cls = "Dice" ->
                    IF /\ Len(args) <= 2
                       /\ kwnames \subseteq {"a", "b"}
                       /\ kwnames \cap positional = {}
                       /\ kwnames \cup positional = {"a", "b"}
                    THEN PyObject("Dice",
                                <<IF Len(args) >= 1 THEN args[1] ELSE OGet(kwargs, PyStr("a")),
                                  IF Len(args) >= 2 THEN args[2] ELSE OGet(kwargs, PyStr("b"))>>,
                                <<>>)
                    ELSE Error("TypeError")
               [] OTHER -> Error("TypeError")   \* a module is not callable

-----------------------------------------------------------------------------
(* Nodes of the representation graph (ruamel.yaml.nodes), and documents    *)

ScalarNode(tag, value) == [tag |-> tag, value |-> value, kind |-> "ScalarNode"]
SequenceNode(tag, items) == [items |-> items, tag |-> tag, kind |-> "SequenceNode"]
MappingNode(tag, pairs) == [pairs |-> pairs, tag |-> tag, kind |-> "MappingNode"]

YamlTag(type) == "tag:yaml.org,2002:" \o type

\* the tag the resolver gives a plain scalar with no explicit tag
ImplicitTag(text) ==
    IF text = "" \/ text = "null" \/ text = "NULL" THEN YamlTag("null")
    ELSE IF text \in {"true", "True", "false", "False"} THEN YamlTag("bool")
    ELSE IF AllDigits(text) THEN YamlTag("int")
    ELSE YamlTag("str")

Plain(text) == ScalarNode(ImplicitTag(text), text)
Quoted(text) == ScalarNode(YamlTag("str"), text)
YSeq(items) == SequenceNode(YamlTag("seq"), items)
YMap(pairs) == MappingNode(YamlTag("map"), pairs)

\* a position in the text of a document; None when the error has none
Mark(line, column) == [line |-> line, column |-> column, mark |-> TRUE]
NoMark == [mark |-> FALSE]

\* a MarkedYAMLError of the parser or the composer
YAMLError(e, problem_mark, context_mark) ==
    [t |-> "error", e |-> e, problem_mark |-> problem_mark,
     context_mark |-> context_mark, note |-> <<>>]

\* A document: the text, the number of lines it has, and what the parser and
\* the composer make of it: a root node, or the error they raise.
Document(text, root) == [t |-> "document", text |-> text, root |-> root, ok |-> TRUE]
Malformed(text, error) == [t |-> "document", text |-> text, ok |-> FALSE, error |-> error]

-----------------------------------------------------------------------------
(* The handlers a constructor table holds                                  *)

\* SafeConstructor.construct_yaml_<type>
construct_yaml(type) == [type |-> type, h |-> "construct_yaml"]

\* SafeConstructor.construct_undefined
construct_undefined == [h |-> "construct_undefined"]

\* the closure from_yaml_constructor(cls) returns
from_yaml_constructor(cls) == [cls |-> cls, h |-> "from_yaml_constructor"]

\* the class's own cls.from_yaml
custom_from_yaml(cls) == [cls |-> cls, h |-> "from_yaml"]

\* the closure vanilla_load adds under the key None
wildcard_constructor(ignore_unknown) ==
    [h |-> "wildcard_constructor", ignore_unknown |-> ignore_unknown]

\* the closure from_yaml_multi_constructor(module, attr_sep) returns
from_yaml_multi_constructor(module, attr_sep) ==
    [h |-> "from_yaml_multi_constructor", module |-> module, attr_sep |-> attr_sep]

\* the dict key None of a constructor table
NoneKey == "<None>"

default_types == {"null", "bool", "int", "float", "binary", "timestamp",
                  "omap", "pairs", "set", "str", "seq", "map"}

_vanilla_yaml_constructors ==
    [k \in {YamlTag(type) : type \in default_types} \cup {NoneKey} |->
        IF k = NoneKey THEN construct_undefined
        ELSE construct_yaml(CHOOSE type \in default_types : YamlTag(type) = k)]

_vanilla_yaml_multi_constructors == <<>>

\* a vanilla_load that parses with the tables as they are
_keep_yaml_constructors(C, M) == <<C, M>>

\* self._reset_yaml_constructors(): the tables it leaves, <<constructors, multi>>
_reset_yaml_constructors(C, M) ==
    <<_vanilla_yaml_constructors, _vanilla_yaml_multi_constructors>>

\* Constructor.add_constructor(tag, constructor)
add_constructor(C, tag, constructor) == (tag :> constructor) @@ C

\* Constructor.add_multi_constructor(prefix, multi_constructor)
add_multi_constructor(M, prefix, multi_constructor) == OPut(M, prefix, multi_constructor)

-----------------------------------------------------------------------------
(* The loader: construct_object and the handlers, on tables C (constructors)*)
(* and M (multi-constructors)                                              *)

Min(S) == CHOOSE i \in S : \A j \in S : i <= j
Max(S) == CHOOSE i \in S : \A j \in S : i >= j

\* *args of a call
star(v) ==
    CASE v.t = "list" -> v.items
      [] v.t = "str" -> [i \in 1..Len(v.s) |-> PyStr(SubSeq(v.s, i, i))]
      [] OTHER -> <<>>

\* **kwargs of a call
dstar(v) == IF v.t = "dict" THEN v.pairs ELSE <<>>

\* cls(*args, **kwargs) where args and kwargs are values
call_star(cls, args, kwargs) ==
    IF args.t \notin {"list", "str"} \/ kwargs.t # "dict"
    THEN Error("TypeError")
    ELSE call(cls, star(args), dstar(kwargs))

\* operator.attrgetter(path)(obj)
RECURSIVE attrgetter(_, _)
attrgetter(path, obj) ==
    LET dot == find(path, ".", 1)
        first == IF dot = 0 THEN path ELSE SubSeq(path, 1, dot - 1)
        attr == getattr(obj, first)
    IN  IF attr = "None" THEN "None"
        ELSE IF dot = 0 THEN attr
        ELSE attrgetter(SubSeq(path, dot + 1, Len(path)), attr)

\* loader.construct_scalar(node)
construct_scalar(node) ==
    IF node.kind = "ScalarNode" THEN PyStr(node.value) ELSE Error("ConstructorError")

\* Dice.from_yaml(loader, node)
Dice_from_yaml(node) ==
    LET value == construct_scalar(node)
        d == find(value.s, "d", 1)
        a == SubSeq(value.s, 1, d - 1)
        b == SubSeq(value.s, d + 1, Len(value.s))
    IN  IF IsError(value) THEN value
        ELSE IF d = 0 \/ find(b, "d", 1) # 0 THEN Error("ValueError")
        ELSE IF a = "" \/ b = "" \/ ~AllDigits(a) \/ ~AllDigits(b) THEN Error("ValueError")
        ELSE call("Dice", <<PyInt(StrToInt(a)), PyInt(StrToInt(b))>>, <<>>)

RECURSIVE construct_object(_, _, _)

\* the list of the constructed items, or the first error one of them raised
list_or_error(vals) ==
    IF \E i \in 1..Len(vals) : IsError(vals[i])
    THEN vals[Min({i \in 1..Len(vals) : IsError(vals[i])})]
    ELSE PyList(vals)

\* loader.construct_sequence(node, deep=True)
construct_sequence(C, M, node) ==
    IF node.kind # "SequenceNode" THEN Error("ConstructorError")
    ELSE CHOOSE r \in {list_or_error(vals) :
                        vals \in {[i \in 1..Len(node.items) |->
                                     construct_object(C, M, node.items[i])]}} : TRUE

\* the dict of the constructed <<key, value>> pairs, or the first error raised:
\* by a key, by an unhashable or duplicate key, or by a value
dict_or_error(kv) ==
    LET n == Len(kv)
        dup == {i \in 1..n : \E j \in 1..(i - 1) : kv[j][1] = kv[i][1]}
        unhashable == {i \in 1..n : kv[i][1].t = "dict"}
        bad == {i \in 1..n : IsError(kv[i][1]) \/ IsError(kv[i][2])} \cup dup \cup unhashable
    IN  IF bad = {} THEN PyDict(kv)
        ELSE CHOOSE r \in {IF IsError(kv[i0][1]) THEN kv[i0][1]
                           ELSE IF i0 \in unhashable THEN Error("ConstructorError")
                           ELSE IF i0 \in dup THEN Error("DuplicateKeyError")
                           ELSE kv[i0][2] : i0 \in {Min(bad)}} : TRUE

\* loader.construct_mapping(node, deep=True)
construct_mapping(C, M, node) ==
    IF node.kind # "MappingNode" THEN Error("ConstructorError")
    ELSE CHOOSE r \in {dict_or_error(kv) :
                        kv \in {[i \in 1..Len(node.pairs) |->
                                   <<construct_object(C, M, node.pairs[i][1]),
                                     construct_object(C, M, node.pairs[i][2])>>]}} : TRUE

\* ConfBuilder.get_data(loader, node)
get_data(C, M, node) ==
    CASE node.kind = "ScalarNode" -> construct_scalar(node)
      [] node.kind = "SequenceNode" -> construct_sequence(C, M, node)
      [] node.kind = "MappingNode" -> construct_mapping(C, M, node)
      [] OTHER -> Error("ConstructorError")

\* from_yaml on a MappingNode, once params = loader.construct_mapping(node, deep=True)
from_yaml_params(cls, params) ==
    LET args == dict_get(params, "args", PyList(<<>>))
        kwargs == dict_get(params, "kwargs", PyDict(<<>>))
    IN  IF IsError(params) THEN params
        ELSE IF ~truthy(args)
             THEN IF truthy(kwargs)
                  THEN call_star(cls, PyList(<<>>), kwargs)
                  ELSE call_star(cls, PyList(<<>>), params)
             ELSE call_star(cls, args, kwargs)

\* from_yaml on a SequenceNode, once args = loader.construct_sequence(node, deep=True)
from_yaml_args(cls, args) ==
    IF IsError(args) THEN args ELSE call_star(cls, args, PyDict(<<>>))

\* the from_yaml(loader, node) closure of from_yaml_constructor(cls)
from_yaml(C, M, cls, node) ==
    CASE node.kind = "ScalarNode" ->
            LET value == construct_scalar(node)
            IN  IF truthy(value) THEN call(cls, <<value>>, <<>>) ELSE call(cls, <<>>, <<>>)
      [] node.kind = "SequenceNode" ->
            CHOOSE r \in {from_yaml_args(cls, args) :
                           args \in {construct_sequence(C, M, node)}} : TRUE
      [] node.kind = "MappingNode" ->
            CHOOSE r \in {from_yaml_params(cls, params) :
                           params \in {construct_mapping(C, M, node)}} : TRUE
      [] OTHER -> PyNone

\* a from_yaml(loader, tag_suffix, node) that walks the suffix as it comes,
\* its leading separators kept
from_yaml_multi_unstripped(C, M, module, sep, tag_suffix, node) ==
    CHOOSE r \in {IF cls = "None" THEN Error("AttributeError")
                  ELSE IF has_from_yaml(cls) THEN Dice_from_yaml(node)
                  ELSE from_yaml(C, M, cls, node) :
                  cls \in {IF tag_suffix = "" THEN module
                           ELSE attrgetter(tag_suffix, module)}} : TRUE

\* the from_yaml(loader, tag_suffix, node) closure of from_yaml_multi_constructor
from_yaml_multi(C, M, module, sep, tag_suffix, node) ==
    CHOOSE r \in {IF cls = "None" THEN Error("AttributeError")
                  ELSE IF has_from_yaml(cls) THEN Dice_from_yaml(node)
                  ELSE from_yaml(C, M, cls, node) :
                  cls \in {IF lstrip(tag_suffix, sep) = "" THEN module
                           ELSE attrgetter(lstrip(tag_suffix, sep), module)}} : TRUE

\* SafeConstructor.construct_yaml_<type>(node)
construct_yaml_type(C, M, type, node) ==
    CASE type = "null" -> PyNone
      [] type = "bool" ->
            IF node.kind # "ScalarNode" THEN Error("ConstructorError")
            ELSE PyBool(node.value \in {"true", "True"})
      [] type = "int" ->
            IF node.kind # "ScalarNode" THEN Error("ConstructorError")
            ELSE IF node.value = "" \/ ~AllDigits(node.value) THEN Error("ValueError")
            ELSE PyInt(StrToInt(node.value))
      [] type = "str" -> construct_scalar(node)
      [] type = "seq" -> construct_sequence(C, M, node)
      [] type = "map" -> construct_mapping(C, M, node)
      [] OTHER -> Error("NotModelled")

\* the handler construct_object picks for a tag: <<handler, tag_suffix>>;
\* the suffix is "<None>" for a plain constructor
pick_constructor(C, M, tag) ==
    LET matching == {i \in 1..Len(M) : startswith(tag, M[i][1])}
    IN  IF tag \in DOMAIN C THEN <<C[tag], NoneKey>>
        ELSE IF matching # {}
             THEN LET prefix == M[Min(matching)][1]
                  IN  <<M[Min(matching)][2], SubSeq(tag, Len(prefix) + 1, Len(tag))>>
        ELSE <<C[NoneKey], NoneKey>>

\* the wildcard_constructor(loader, node) closure of vanilla_load
wildcard(C, M, ignore_unknown, node) ==
    IF ignore_unknown THEN PyNone
    ELSE CHOOSE r \in {IF IsError(data) THEN data
                       ELSE PyDict(<< <<PyStr(node.tag), data>> >>) :
                       data \in {get_data(C, M, node)}} : TRUE

\* the call of the handler c that construct_object picked
construct_with(C, M, c, tag_suffix, node) ==
    CASE c.h = "construct_yaml" -> construct_yaml_type(C, M, c.type, node)
      [] c.h = "construct_undefined" -> Error("ConstructorError")
      [] c.h = "from_yaml_constructor" -> from_yaml(C, M, c.cls, node)
      [] c.h = "from_yaml" -> Dice_from_yaml(node)
      [] c.h = "wildcard_constructor" -> wildcard(C, M, c.ignore_unknown, node)
      [] c.h = "from_yaml_multi_constructor" ->
            from_yaml_multi(C, M, c.module, c.attr_sep, tag_suffix, node)
      [] OTHER -> Error("ConstructorError")

\* BaseConstructor.construct_object(node, deep=True)
construct_object(C, M, node) ==
    CHOOSE r \in {construct_with(C, M, picked[1], picked[2], node) :
                   picked \in {pick_constructor(C, M, node.tag)}} : TRUE

\* self.yaml.load(document): the parser and composer first, then the constructor
yaml_load(C, M, document) ==
    IF ~document.ok THEN document.error
    ELSE construct_object(C, M, document.root)

-----------------------------------------------------------------------------
(* json.dumps(value, indent=2, sort_keys=sort_keys)                        *)

\* the text json gives a dict key
key_text(k) ==
    CASE k.t = "str" -> k.s
      [] k.t = "int" -> IntToStr(k.i)
      [] k.t = "bool" -> IF k.b THEN "true" ELSE "false"
      [] k.t = "NoneType" -> "null"
      [] OTHER -> ""

\* the types Python orders among themselves: str, the numbers (bool is an int)
key_class(k) ==
    CASE k.t = "str" -> "str"
      [] k.t \in {"int", "bool"} -> "number"
      [] OTHER -> k.t

key_number(k) == IF k.t = "bool" THEN (IF k.b THEN 1 ELSE 0) ELSE k.i

\* k1 < k2 on two keys of the same class
key_less(k1, k2) ==
    CASE key_class(k1) = "str" -> StrLess(k1.s, k2.s)
      [] key_class(k1) = "number" -> key_number(k1) < key_number(k2)
      [] OTHER -> FALSE

\* sorted(dct.items()): insertion of one pair in a sorted list
RECURSIVE insert_sorted(_, _)
insert_sorted(sorted, pair) ==
    IF Len(sorted) = 0 THEN <<pair>>
    ELSE IF key_less(pair[1], sorted[1][1]) THEN <<pair>> \o sorted
    ELSE <<sorted[1]>> \o insert_sorted(Tail(sorted), pair)

RECURSIVE sorted_items(_)
sorted_items(pairs) ==
    IF Len(pairs) = 0 THEN <<>>
    ELSE CHOOSE r \in {insert_sorted(sorted, pairs[Len(pairs)]) :
                        sorted \in {sorted_items(SubSeq(pairs, 1, Len(pairs) - 1))}} : TRUE

\* whether the encoder raises TypeError on the value
RECURSIVE json_raises(_, _)
json_raises(v, sort_keys) ==
    CASE v.t \in {"NoneType", "bool", "int", "str"} -> FALSE
      [] v.t = "list" -> \E i \in 1..Len(v.items) : json_raises(v.items[i], sort_keys)
      [] v.t = "dict" ->
            \/ \E i \in 1..Len(v.pairs) :
                  \/ v.pairs[i][1].t \notin {"str", "int", "bool", "NoneType"}
                  \/ json_raises(v.pairs[i][2], sort_keys)
            \/ /\ sort_keys
               /\ \E i, j \in 1..Len(v.pairs) :
                     key_class(v.pairs[i][1]) # key_class(v.pairs[j][1])
      [] OTHER -> TRUE

indent(level) == [i \in 1..(2 * level) |-> " "]

RECURSIVE concat(_)
concat(strings) ==
    IF Len(strings) = 0 THEN "" ELSE strings[1] \o concat(Tail(strings))

RECURSIVE join(_, _)
join(sep, strings) ==
    IF Len(strings) = 0 THEN ""
    ELSE IF Len(strings) = 1 THEN strings[1]
    ELSE strings[1] \o sep \o join(sep, Tail(strings))

\* the items of a container, one per line at the indent of level + 1
json_lines(open, strings, close, level) ==
    open \o "\n" \o join(",\n", strings) \o "\n" \o concat(indent(level)) \o close

RECURSIVE json_text(_, _, _)
\* the text of a dict whose items are in the order the encoder emits them
json_dict(items, sort_keys, level) ==
    IF Len(items) = 0 THEN "{}"
    ELSE CHOOSE r \in {json_lines("{", strings, "}", level) :
                        strings \in {[i \in 1..Len(items) |->
                                        concat(indent(level + 1))
                                        \o "\"" \o key_text(items[i][1]) \o "\": "
                                        \o json_text(items[i][2], sort_keys, level + 1)]}} : TRUE

json_text(v, sort_keys, level) ==
    CASE v.t = "NoneType" -> "null"
      [] v.t = "bool" -> IF v.b THEN "true" ELSE "false"
      [] v.t = "int" -> IntToStr(v.i)
      [] v.t = "str" -> "\"" \o v.s \o "\""
      [] v.t = "list" ->
            IF Len(v.items) = 0 THEN "[]"
            ELSE CHOOSE r \in {json_lines("[", strings, "]", level) :
                                strings \in {[i \in 1..Len(v.items) |->
                                                concat(indent(level + 1))
                                                \o json_text(v.items[i], sort_keys, level + 1)]}} : TRUE
      [] v.t = "dict" ->
            CHOOSE r \in {json_dict(items, sort_keys, level) :
                           items \in {IF sort_keys THEN sorted_items(v.pairs) ELSE v.pairs}} : TRUE
      [] OTHER -> ""

json_dumps(v, sort_keys) ==
    IF json_raises(v, sort_keys) THEN Error("TypeError")
    ELSE PyStr(json_text(v, sort_keys, 0))

\* int.from_bytes(hashlib.sha3_256(text).digest(), "big"): the digest is taken
\* as injective on the text, so the integer is named by the text it digests
sha3_256_int(text) == [t |-> "int", sha3_256_of |-> text]

-----------------------------------------------------------------------------
(* Templates (jinja2): literal text with {{ variable }} references         *)

Lit(text) == [lit |-> text]
Var(v) == [var |-> v]

\* the node a {{ variable }} stands for in the tree the composer will build
Hole(v) == [kind |-> "Hole", var |-> v]

\* A template: its parts, and what the parser and composer make of the text
\* once the references are rendered (a document whose tree has holes).
Template(parts, document) == [t |-> "template", document |-> document, parts |-> parts]

\* a template with no reference: its text is the document's
Verbatim(document) == Template(<<Lit(document.text)>>, document)

refs(template) ==
    {template.parts[i].var : i \in {j \in 1..Len(template.parts) :
                                        "var" \in DOMAIN template.parts[j]}}

\* str(value), as {{ variable }} prints it
py_str(v) ==
    CASE v.t = "str" -> v.s
      [] v.t = "int" -> IntToStr(v.i)
      [] v.t = "bool" -> IF v.b THEN "True" ELSE "False"
      [] v.t = "NoneType" -> "None"
      [] OTHER -> ""

\* the text a reference renders to: an undefined one (default Undefined) is empty
var_text(env, v) == IF OHas(env, PyStr(v)) THEN py_str(OGet(env, PyStr(v))) ELSE ""

RECURSIVE fill(_, _)
fill(node, env) ==
    CASE node.kind = "Hole" -> Plain(var_text(env, node.var))
      [] node.kind = "ScalarNode" -> node
      [] node.kind = "SequenceNode" ->
            SequenceNode(node.tag, [i \in 1..Len(node.items) |-> fill(node.items[i], env)])
      [] node.kind = "MappingNode" ->
            MappingNode(node.tag, [i \in 1..Len(node.pairs) |->
                                     <<fill(node.pairs[i][1], env), fill(node.pairs[i][2], env)>>])

\* template.render(**env); strict is undefined=StrictUndefined
template_render(template, strict, env) ==
    LET text == concat([i \in 1..Len(template.parts) |->
                          IF "var" \in DOMAIN template.parts[i]
                          THEN var_text(env, template.parts[i].var)
                          ELSE template.parts[i].lit])
    IN  IF strict /\ \E v \in refs(template) : ~OHas(env, PyStr(v))
        THEN Error("UndefinedError")
        ELSE IF template.document.ok
             THEN Document(text, fill(template.document.root, env))
             ELSE Malformed(text, template.document.error)

\* The spec argument: a str that names an existing file (below root_path, if
\* given) holding the template, or that is the template itself.
SpecFile(template) == [template |-> template, isfile |-> TRUE]
SpecString(template) == [template |-> template, isfile |-> FALSE]

\* root_path=None
NoRoot == "None"

\* ConfBuilder._get_template(spec, root_path): whether the template it returns
\* was made by an Environment with undefined=StrictUndefined
_get_template_strict(spec, root_path) ==
    IF spec.isfile THEN TRUE                        \* _template_from_file
    ELSE IF root_path \notin {NoRoot, ""} THEN TRUE \* `if root_path:` env.from_string
    ELSE FALSE                                      \* Template(document)

\* The context argument: None, a mapping, or a str (the path of an existing file
\* holding a document, or the document itself)
CtxNone == [kind |-> "None"]
CtxDict(pairs) == [value |-> PyDict(pairs), kind |-> "dict"]
CtxStr(document) == [kind |-> "str", document |-> document, isfile |-> FALSE]
CtxFile(document) == [kind |-> "str", document |-> document, isfile |-> TRUE]

-----------------------------------------------------------------------------
(* ConfBuilder's calls, as functions of the live tables C and M: each      *)
(* yields the tables it leaves and what it returns or raises               *)

Outcome(C, M, ret) == [C |-> C, M |-> M, ret |-> ret]

\* a vanilla_load that returns without restoring the captured tables
vanilla_unrestored(registered_constructors, registered_multi_constructors, C1, M1, normalized_conf) ==
    Outcome(C1, M1, normalized_conf)

\* vanilla_load from its yaml.load on: a raise skips the restore of the
\* captured tables, which follows the load with no try/finally
vanilla_restore(registered_constructors, registered_multi_constructors, C1, M1, normalized_conf) ==
    IF IsError(normalized_conf)
    THEN Outcome(C1, M1, normalized_conf)
    ELSE Outcome(registered_constructors, registered_multi_constructors, normalized_conf)

\* vanilla_load once the tables C1, M1 it parses with are installed
vanilla_parse(C, M, C1, M1, document) ==
    CHOOSE r \in {vanilla_restore(C, M, C1, M1, normalized_conf) :
                   normalized_conf \in {yaml_load(C1, M1, document)}} : TRUE

\* ConfBuilder.vanilla_load(document, ignore_unknown)
vanilla_load(C, M, document, ignore_unknown) ==
    CHOOSE r \in {vanilla_parse(C, M, add_constructor(reset[1], NoneKey,
                                                      wildcard_constructor(ignore_unknown)),
                                reset[2], document) :
                   reset \in {_reset_yaml_constructors(C, M)}} : TRUE

\* render once the context is loaded
render_loaded(loaded, spec, root_path) ==
    LET ctx == loaded.ret
    IN  IF IsError(ctx) THEN loaded
        ELSE IF ctx.t \notin {"NoneType", "dict"}
                \/ (ctx.t = "dict" /\ \E i \in 1..Len(ctx.pairs) : ctx.pairs[i][1].t # "str")
             THEN Outcome(loaded.C, loaded.M, Error("TypeError"))
        ELSE Outcome(loaded.C, loaded.M,
                     template_render(spec.template, _get_template_strict(spec, root_path),
                                     IF ctx.t = "NoneType" THEN <<>> ELSE ctx.pairs))

\* ConfBuilder.render(spec, context, root_path)
render(C, M, spec, context, root_path) ==
    CHOOSE r \in {render_loaded(loaded, spec, root_path) :
                   loaded \in {IF context.kind = "str"
                               THEN vanilla_load(C, M, context.document, TRUE)
                               ELSE Outcome(C, M, IF context.kind = "None" THEN PyNone
                                                  ELSE context.value)}} : TRUE

\* str.splitlines()
RECURSIVE splitlines(_)
splitlines(text) ==
    LET nl == find(text, "\n", 1)
    IN  IF text = "" THEN <<>>
        ELSE IF nl = 0 THEN <<text>>
        ELSE <<SubSeq(text, 1, nl - 1)>> \o splitlines(SubSeq(text, nl + 1, Len(text)))

\* seq[a:b]
slice(seq, a, b) ==
    LET n == Len(seq)
        lo == IF a < 0 THEN (IF a + n < 0 THEN 0 ELSE a + n) ELSE (IF a > n THEN n ELSE a)
        hi == IF b < 0 THEN (IF b + n < 0 THEN 0 ELSE b + n) ELSE (IF b > n THEN n ELSE b)
    IN  SubSeq(seq, lo + 1, hi)

\* the except clauses of ConfBuilder.load on what yaml.load returned or raised
load_except(e, document) ==
    LET marked == "problem_mark" \in DOMAIN e
        \* operator.attrgetter("problem_mark.line")(e) raises when the mark is None
        no_problem == ~e.problem_mark.mark
        line0 == e.problem_mark.line
        need_context_line == line0 = 0
        line == IF need_context_line THEN e.context_mark.line ELSE line0
        column0 == e.problem_mark.column
        need_context_column == column0 = 0
        column == IF need_context_column THEN e.context_mark.column ELSE column0
    IN  IF ~IsError(e) THEN e
        ELSE IF ~marked THEN e            \* ConstructorError and non-YAML errors: raise
        ELSE IF no_problem THEN Error("AttributeError")
        ELSE IF (need_context_line \/ need_context_column) /\ ~e.context_mark.mark
             THEN Error("AttributeError")
        ELSE IF line # 0 /\ column # 0
             THEN CHOOSE r \in {[e EXCEPT !.note = e.note
                                    \o "\n\nError occurred around here:\n\n"
                                    \o join("\n", snippet)] :
                                snippet \in {slice(splitlines(document.text),
                                                   line - 3, line + 4)}} : TRUE
        ELSE e

\* ConfBuilder.load(document): what it returns or raises
load(C, M, document) ==
    CHOOSE r \in {load_except(e, document) : e \in {yaml_load(C, M, document)}} : TRUE

\* Whether the call got as far as handing the rendered document to the parser
Call(C, M, ret, parsed) == [C |-> C, M |-> M, ret |-> ret, parsed |-> parsed]

\* build once the document is rendered
build_rendered(r) ==
    IF IsError(r.ret) THEN Call(r.C, r.M, r.ret, FALSE)
    ELSE Call(r.C, r.M, load(r.C, r.M, r.ret), TRUE)

\* ConfBuilder.build(spec, context, root_path)
build(C, M, spec, context, root_path) ==
    CHOOSE c \in {build_rendered(r) : r \in {render(C, M, spec, context, root_path)}} : TRUE

\* normalize once the rendered document is loaded without the registered tags
normalize_loaded(v, sort_keys, raw) ==
    IF IsError(v.ret) \/ raw THEN Call(v.C, v.M, v.ret, TRUE)
    ELSE Call(v.C, v.M, json_dumps(v.ret, sort_keys), TRUE)

\* normalize once the document is rendered
normalize_rendered(r, sort_keys, raw) ==
    IF IsError(r.ret) THEN Call(r.C, r.M, r.ret, FALSE)
    ELSE CHOOSE c \in {normalize_loaded(v, sort_keys, raw) :
                        v \in {vanilla_load(r.C, r.M, r.ret, FALSE)}} : TRUE

\* ConfBuilder.normalize(spec, sort_keys, raw, context, root_path)
normalize(C, M, spec, sort_keys, raw, context, root_path) ==
    CHOOSE c \in {normalize_rendered(r, sort_keys, raw) :
                   r \in {render(C, M, spec, context, root_path)}} : TRUE

\* ConfBuilder.hash(spec, context, root_path)
hash(C, M, spec, context, root_path) ==
    CHOOSE c \in {IF IsError(n.ret) THEN n ELSE Call(n.C, n.M, sha3_256_int(n.ret.s), TRUE) :
                   n \in {normalize(C, M, spec, TRUE, FALSE, context, root_path)}} : TRUE

-----------------------------------------------------------------------------
(* Registration                                                            *)

\* self.attr_sep, the default of ConfBuilder.__init__
attr_sep == "."

\* ConfBuilder.default_tag_name(obj)
default_tag_name(obj) == "!" \o name(obj)

\* A warnings.warn(msg, RuntimeWarning) call, by what its message names
Warning(tag, src, dst) == [tag |-> tag, src |-> src, dst |-> dst]

\* ConfBuilder._warn_override(new_callables, old_callables, warning_msg):
\* the warnings it emits, one per tag at most; new and old are functions
_warn_override(new, old) ==
    {Warning(tag, old[tag], new[tag]) : tag \in {k \in DOMAIN new \cap DOMAIN old : old[k] # new[k]}}

\* {default_tag_name(cls): cls for cls in callables}
RECURSIVE default_callables(_)
default_callables(callables) ==
    IF Len(callables) = 0 THEN <<>>
    ELSE OPut(default_callables(SubSeq(callables, 1, Len(callables) - 1)),
              default_tag_name(callables[Len(callables)]), callables[Len(callables)])

\* {k.rstrip(self.attr_sep): v for k, v in named_callables.items()}
RECURSIVE stripped_callables(_)
stripped_callables(named) ==
    IF Len(named) = 0 THEN <<>>
    ELSE OPut(stripped_callables(SubSeq(named, 1, Len(named) - 1)),
              rstrip(named[Len(named)][1], attr_sep), named[Len(named)][2])

\* ConfBuilder._validate_callables(*callables, **named_callables): the dict it
\* returns and the bag of warnings it emits
_validate_callables(callables, named, registered, registered_multi) ==
    CHOOSE r \in {[warned |-> SetToBag(_warn_override(AsFn(named), AsFn(defaults)))
                              (+) SetToBag(_warn_override(AsFn(all_callables), registered))
                              (+) SetToBag(_warn_override(AsFn(all_callables), registered_multi)),
                   all_callables |-> all_callables] :
                   defaults \in {default_callables(callables)},
                   all_callables \in {OUpdate(default_callables(callables),
                                              stripped_callables(named))}} : TRUE

\* YAML.register_class(cls): the constructor goes under the class's own tag
register_class(C, cls) == add_constructor(C, "!" \o name(cls), custom_from_yaml(cls))

\* the loop of register_constructors over all_callables.items()
RECURSIVE register_all(_, _)
register_all(C, all_callables) ==
    IF Len(all_callables) = 0 THEN C
    ELSE LET tag_name == all_callables[1][1]
             cls == all_callables[1][2]
         IN  register_all(IF ~has_from_yaml(cls)
                          THEN add_constructor(C, tag_name, from_yaml_constructor(cls))
                          ELSE register_class(C, cls),
                          Tail(all_callables))

\* the loop of register_multi_constructors over all_callables.items()
RECURSIVE register_multi_all(_, _)
register_multi_all(M, all_callables) ==
    IF Len(all_callables) = 0 THEN M
    ELSE register_multi_all(
            add_multi_constructor(M, all_callables[1][1],
                                  from_yaml_multi_constructor(all_callables[1][2], attr_sep)),
            Tail(all_callables))

-----------------------------------------------------------------------------
(* The calls, as actions on one builder                                    *)

\* ConfBuilder.register_constructors(*callables, **named_callables)
RegisterConstructors(callables, named) ==
    \E v \in {_validate_callables(callables, named,
                                   registered_callables, registered_multi_callables)} :
        /\ registered_callables' = AsFn(v.all_callables) @@ registered_callables
        /\ yaml_constructors' = register_all(yaml_constructors, v.all_callables)
        /\ warned' = v.warned
        /\ last' = [registered_callables |-> registered_callables,
                    registered_multi_callables |-> registered_multi_callables,
                    callables |-> callables, named |-> named,
                    all_callables |-> AsFn(v.all_callables),
                    op |-> "register_constructors"]
        /\ result' = PyNone
        /\ UNCHANGED <<registered_multi_callables, yaml_multi_constructors, hashed, threads, other>>

\* ConfBuilder.register_multi_constructors(*callables, **named_callables)
RegisterMultiConstructors(callables, named) ==
    \E v \in {_validate_callables(callables, named,
                                   registered_callables, registered_multi_callables)} :
        /\ registered_multi_callables' = AsFn(v.all_callables) @@ registered_multi_callables
        /\ yaml_multi_constructors' = register_multi_all(yaml_multi_constructors, v.all_callables)
        /\ warned' = v.warned
        /\ last' = [registered_callables |-> registered_callables,
                    registered_multi_callables |-> registered_multi_callables,
                    callables |-> callables, named |-> named,
                    all_callables |-> AsFn(v.all_callables),
                    op |-> "register_multi_constructors"]
        /\ result' = PyNone
        /\ UNCHANGED <<registered_callables, yaml_constructors, hashed, threads, other>>

\* what a build, normalize, hash or render call leaves behind
Returns(op, spec, context, root_path, r) ==
    /\ yaml_constructors' = r.C
    /\ yaml_multi_constructors' = r.M
    /\ result' = r.ret
    /\ warned' = EmptyBag
    /\ last' = [registered_callables |-> registered_callables,
                registered_multi_callables |-> registered_multi_callables,
                yaml_constructors |-> yaml_constructors,
                yaml_multi_constructors |-> yaml_multi_constructors,
                spec |-> spec,
                root_path |-> root_path,
                context |-> context,
                parsed |-> r.parsed,
                op |-> op]
    /\ UNCHANGED <<registry, threads, other>>

\* ConfBuilder.render(spec, context, root_path)
Render(spec, context, root_path) ==
    \E r \in {render(yaml_constructors, yaml_multi_constructors, spec, context, root_path)} :
        /\ Returns("render", spec, context, root_path, Call(r.C, r.M, r.ret, FALSE))
        /\ UNCHANGED hashed

\* ConfBuilder.build(spec, context, root_path)
Build(spec, context, root_path) ==
    \E r \in {build(yaml_constructors, yaml_multi_constructors, spec, context, root_path)} :
        /\ Returns("build", spec, context, root_path, r)
        /\ UNCHANGED hashed

\* ConfBuilder.normalize(spec, sort_keys, raw, context, root_path)
Normalize(spec, sort_keys, raw, context, root_path) ==
    \E r \in {normalize(yaml_constructors, yaml_multi_constructors,
                         spec, sort_keys, raw, context, root_path)} :
        /\ Returns(IF raw THEN "normalize_raw" ELSE "normalize", spec, context, root_path, r)
        /\ UNCHANGED hashed

\* ConfBuilder.hash(spec, context, root_path); keep: whether this call is the
\* one kept in hashed for comparison with later calls
Hash(spec, context, root_path, keep) ==
    \E r \in {hash(yaml_constructors, yaml_multi_constructors, spec, context, root_path)} :
        /\ Returns("hash", spec, context, root_path, r)
        /\ hashed' = IF keep
                     THEN [registered_callables |-> registered_callables,
                           registered_multi_callables |-> registered_multi_callables,
                           value |-> r.ret,
                           spec |-> spec, root_path |-> root_path,
                           context |-> context,
                           kept |-> TRUE]
                     ELSE hashed

NoHash == [kept |-> FALSE]

\* a fresh process and a fresh ConfBuilder(): __init__, no call made yet
Init ==
    /\ registered_callables = <<>>
    /\ registered_multi_callables = <<>>
    /\ yaml_constructors = _vanilla_yaml_constructors
    /\ yaml_multi_constructors = _vanilla_yaml_multi_constructors
    /\ warned = EmptyBag
    /\ last = [op |-> "__init__"]
    /\ result = PyNone
    /\ hashed = NoHash
    /\ pc = <<>>
    /\ job = <<>>
    /\ local = <<>>
    /\ tresult = <<>>
    /\ other = [registered_callables |-> <<>>, registered_multi_callables |-> <<>>,
                name |-> "B"]
    /\ dict_id = 0

-----------------------------------------------------------------------------
(* The inputs the calls are tried on                                       *)

\* positional arguments of one registration call, at most
MaxPositional == 1

\* keyword arguments of one registration call, at most
MaxNamed == 1

\* the sequences of at most n elements of S without repetition
RECURSIVE UpTo(_, _)
UpTo(S, n) ==
    IF n = 0 THEN {<<>>}
    ELSE UpTo(S, n - 1)
         \cup {Append(q, x) : q \in {p \in UpTo(S, n - 1) : Len(p) = n - 1}, x \in S}

\* the **named_callables of a call: pairs with distinct keys
NamedArgs(keys, targets, n) ==
    {d \in UpTo(keys \X targets, n) : \A i, j \in 1..Len(d) : d[i][1] = d[j][1] => i = j}

\* the arguments register_constructors is called with
RegCallables == UpTo({"Foo", "Dice"}, MaxPositional)
RegNamed == NamedArgs({"!Foo", "!Foo.", "!d"}, {"Bar", "Dice"}, MaxNamed)

\* the arguments register_multi_constructors is called with
MultiCallables == UpTo({"utils"}, MaxPositional)
MultiNamed == NamedArgs({"!Foo"}, {"utils", "Bar"}, MaxNamed)

\* "!Foo"
DocFoo == Document("!Foo", ScalarNode("!Foo", ""))
\* "!d 10d6"
DocD == Document("!d 10d6", ScalarNode("!d", "10d6"))
\* "!Dice 10d6"
DocDice == Document("!Dice 10d6", ScalarNode("!Dice", "10d6"))
\* "!tests.utils.Bar"
DocUtilsBar == Document("!tests.utils.Bar", ScalarNode("!tests.utils.Bar", ""))
\* "[1, 2, 3[": the parser's error names line 0
DocUnclosed == Malformed("[1, 2, 3[", YAMLError("ParserError", Mark(0, 8), Mark(0, 0)))
\* "N: 1", a context
DocContext == Document("N: 1", YMap(<< <<Plain("N"), Plain("1")>> >>))

TaggedSpecs == {SpecString(Verbatim(d)) : d \in {DocFoo, DocD, DocDice, DocUtilsBar}}

\* one builder: registrations and builds, one after the other
Next ==
    \/ \E callables \in RegCallables, named \in RegNamed :
          RegisterConstructors(callables, named)
    \/ \E callables \in MultiCallables, named \in MultiNamed :
          RegisterMultiConstructors(callables, named)
    \/ \E spec \in TaggedSpecs : Build(spec, CtxNone, NoRoot)

Spec == Init /\ [][Next]_vars

-----------------------------------------------------------------------------
(* Collision warnings of a registration call                               *)

\* the last call was a registration
IsRegistration == last.op \in {"register_constructors", "register_multi_constructors"}

\* the mapping the last registration call writes, as it was before the call
OwnMapping ==
    IF last.op = "register_constructors" THEN last.registered_callables
    ELSE last.registered_multi_callables

\* the call gives no tag twice (once by a positional default, once by name)
NamesEachTagOnce ==
    DOMAIN AsFn(last.named) \cap DOMAIN AsFn(default_callables(last.callables)) = {}

\* how many warnings the last call emitted for the tag
WarningsFor(tag) ==
    BagCardinality([w \in {x \in BagToSet(warned) : x.tag = tag} |-> CopiesIn(w, warned)])

\* C1: a registration call that rebinds a tag (or prefix) already bound in
\* its mapping to a different target emits exactly one warning for that tag,
\* whatever registrations came before.
C1_ExactlyOneWarning ==
    (IsRegistration /\ NamesEachTagOnce) =>
        \A tag \in DOMAIN last.all_callables \cap DOMAIN OwnMapping :
            OwnMapping[tag] # last.all_callables[tag] => WarningsFor(tag) = 1

\* C2: a registration call that binds a tag (or prefix) to the target it is
\* already bound to in its mapping emits no warning for that tag, also when
\* the tag is a key of the other mapping.
C2_SameTargetSilent ==
    (IsRegistration /\ NamesEachTagOnce) =>
        \A tag \in DOMAIN last.all_callables \cap DOMAIN OwnMapping :
            OwnMapping[tag] = last.all_callables[tag] => WarningsFor(tag) = 0

-----------------------------------------------------------------------------
(* Dispatch of a registered tag                                            *)

\* one builder on which only register_constructors and build are called
NextDirect ==
    \/ \E callables \in RegCallables, named \in RegNamed :
          RegisterConstructors(callables, named)
    \/ \E spec \in TaggedSpecs : Build(spec, CtxNone, NoRoot)

SpecDirect == Init /\ [][NextDirect]_vars

\* what the target bound to a tag makes of a node: its own from_yaml when it
\* has one, the from_yaml of from_yaml_constructor(target) otherwise
ThroughTarget(target, node) ==
    IF has_from_yaml(target) THEN Dice_from_yaml(node)
    ELSE from_yaml(yaml_constructors, yaml_multi_constructors, target, node)

\* the node of the document the last build was given
BuiltNode == last.spec.template.document.root

\* C3: after any register_constructors calls, building a document whose node
\* is tagged t, with t in registered_callables, returns what the target
\* registered_callables[t] constructs from the node (here: when the target
\* accepts the node), whatever the kind of the target.
C3_BuildsThroughRegistered ==
    (/\ last.op = "build"
     /\ BuiltNode.tag \in DOMAIN registered_callables
     /\ ~IsError(ThroughTarget(registered_callables[BuiltNode.tag], BuiltNode))) =>
        result = ThroughTarget(registered_callables[BuiltNode.tag], BuiltNode)

-----------------------------------------------------------------------------
(* The adapter of from_yaml_constructor on mapping nodes                   *)

\* items of an `args` list, at most
MaxArgs == 2

\* entries of a `kwargs` mapping, at most
MaxKwargs == 2

\* a key of a mapping document: the text of the entry and its node pair
Entry(text, key, node) == [pairs |-> << <<Plain(key), node>> >>, text |-> text]
Absent == [pairs |-> <<>>, text |-> ""]

\* "args: [1, 2]" with n items
ArgsEntry(n) ==
    Entry("args: [" \o join(", ", [i \in 1..n |-> IntToStr(i)]) \o "]", "args",
          YSeq([i \in 1..n |-> Plain(IntToStr(i))]))

KwNames == <<"a", "b", "c", "d">>

\* "kwargs: {a: 1, b: 2}" with n entries
KwargsEntry(n) ==
    Entry("kwargs: {" \o join(", ", [i \in 1..n |-> KwNames[i] \o ": " \o IntToStr(i)]) \o "}",
          "kwargs",
          YMap([i \in 1..n |-> <<Plain(KwNames[i]), Plain(IntToStr(i))>>]))

\* "!Foo {args: [1], kwargs: {a: 1}, z: 3}": a flow mapping of the entries
MappingDoc(tag, entries) ==
    Document(tag \o " {" \o join(", ", SelectSeq([i \in 1..Len(entries) |-> entries[i].text],
                                                 LAMBDA text : text # "")) \o "}",
             MappingNode(tag, entries[1].pairs \o entries[2].pairs \o entries[3].pairs))

MappingSpecs ==
    {SpecString(Verbatim(MappingDoc(tag, <<a, k, z>>))) :
        tag \in {"!Foo", "!Bar"},
        a \in {Absent} \cup {ArgsEntry(n) : n \in 0..MaxArgs},
        k \in {Absent} \cup {KwargsEntry(n) : n \in 0..MaxKwargs},
        z \in {Absent, Entry("z: 3", "z", Plain("3"))}}

\* one builder: default-tag registrations of Foo and Bar, builds of mappings
NextAdapter ==
    \/ \E callables \in UpTo({"Foo", "Bar"}, MaxPositional) :
          RegisterConstructors(callables, <<>>)
    \/ \E spec \in MappingSpecs : Build(spec, CtxNone, NoRoot)

SpecAdapter == Init /\ [][NextAdapter]_vars

\* the last call built a mapping node bound to a target without from_yaml
BuiltPlainMapping ==
    /\ last.op = "build"
    /\ BuiltNode.kind = "MappingNode"
    /\ BuiltNode.tag \in DOMAIN registered_callables
    /\ ~has_from_yaml(registered_callables[BuiltNode.tag])

\* the mapping of the built node, recursively resolved
BuiltParams == construct_mapping(yaml_constructors, yaml_multi_constructors, BuiltNode)

BuiltHas(key) == OHas(BuiltParams.pairs, PyStr(key))

\* C9: a mapping node with the key `args` (any list, the empty list
\* included) invokes the target with the items of `args` as positional
\* arguments and the value of `kwargs` (empty when absent) as keyword
\* arguments; no other key is passed.
C9_ArgsPresent ==
    (BuiltPlainMapping /\ BuiltHas("args") /\ dict_get(BuiltParams, "args", PyNone).t = "list") =>
        result = call_star(registered_callables[BuiltNode.tag],
                           dict_get(BuiltParams, "args", PyNone),
                           dict_get(BuiltParams, "kwargs", PyDict(<<>>)))

\* C10: a mapping node without the key `args` invokes the target with no
\* positional argument and, as keyword arguments, the value of `kwargs`
\* when that key is present (any mapping, the empty one included; other
\* keys ignored) and the entire mapping when it is absent.
C10_ArgsAbsent ==
    (BuiltPlainMapping /\ ~BuiltHas("args")) =>
        result = call_star(registered_callables[BuiltNode.tag], PyList(<<>>),
                           IF BuiltHas("kwargs") THEN dict_get(BuiltParams, "kwargs", PyNone)
                           ELSE BuiltParams)

-----------------------------------------------------------------------------
(* Rendering templates that reference variables                            *)

\* "a: {{ x }}"
TemplateA ==
    Template(<<Lit("a: "), Var("x")>>, Document("", YMap(<< <<Plain("a"), Hole("x")>> >>)))
\* "- {{ x }}\n- {{ y }}"
TemplateXY ==
    Template(<<Lit("- "), Var("x"), Lit("\n- "), Var("y")>>,
             Document("", YSeq(<<Hole("x"), Hole("y")>>)))
\* "x: 1", a context document
DocX == Document("x: 1", YMap(<< <<Plain("x"), Plain("1")>> >>))

\* the ways of supplying a spec: a path to a file, or the document itself
RenderSpecs ==
    {SpecFile(t) : t \in {TemplateA, TemplateXY}}
    \cup {SpecString(t) : t \in {TemplateA, TemplateXY, Verbatim(DocX)}}

RenderContexts ==
    {CtxNone, CtxStr(DocX), CtxDict(<< <<PyStr("x"), PyInt(1)>> >>),
     CtxDict(<< <<PyStr("x"), PyInt(1)>>, <<PyStr("y"), PyInt(2)>> >>)}

RootPaths == {NoRoot, "conf"}

\* one builder: render, build, normalize and hash of templates
NextRender ==
    \/ \E spec \in RenderSpecs, context \in RenderContexts, root_path \in RootPaths :
          Render(spec, context, root_path)
    \/ \E spec \in RenderSpecs, context \in RenderContexts, root_path \in RootPaths :
          Build(spec, context, root_path)
    \/ \E spec \in RenderSpecs, context \in RenderContexts, root_path \in RootPaths,
          raw \in BOOLEAN :
          Normalize(spec, FALSE, raw, context, root_path)
    \/ \E spec \in RenderSpecs, context \in RenderContexts, root_path \in RootPaths :
          Hash(spec, context, root_path, FALSE)

SpecRender == Init /\ [][NextRender]_vars

\* the variables the context of the last call defines
Defined ==
    CHOOSE names \in {IF ctx.t = "dict" THEN {ctx.pairs[i][1].s : i \in 1..Len(ctx.pairs)}
                      ELSE {} :
                      ctx \in {IF last.context.kind = "str"
                               THEN vanilla_load(last.yaml_constructors,
                                                 last.yaml_multi_constructors,
                                                 last.context.document, TRUE).ret
                               ELSE IF last.context.kind = "dict" THEN last.context.value
                               ELSE PyNone}} : TRUE

\* C8: however the spec is supplied (a file, a string with a root_path, a
\* string without one), a render, build, normalize or hash call whose
\* template references a variable absent from the context raises the
\* undefined-variable error and the rendered text is never parsed.
C8_UndefinedVariableRaises ==
    (/\ last.op \in {"render", "build", "normalize", "normalize_raw", "hash"}
     /\ ~(refs(last.spec.template) \subseteq Defined)) =>
        (result = Error("UndefinedError") /\ ~last.parsed)

-----------------------------------------------------------------------------
(* Hashing                                                                 *)

\* "!Foo {a: 1}" and "!Foo {a: 2}": one tag, two payloads
DocFooA1 == Document("!Foo {a: 1}", MappingNode("!Foo", << <<Plain("a"), Plain("1")>> >>))
DocFooA2 == Document("!Foo {a: 2}", MappingNode("!Foo", << <<Plain("a"), Plain("2")>> >>))
\* "1: a" and "'1': a": an int key and a str key
DocIntKey == Document("1: a", YMap(<< <<Plain("1"), Plain("a")>> >>))
DocStrKey == Document("'1': a", YMap(<< <<Quoted("1"), Plain("a")>> >>))
\* "!tests.utils.Bar {x: {{ x }}}"
TemplateBar ==
    Template(<<Lit("!tests.utils.Bar {x: "), Var("x"), Lit("}")>>,
             Document("", MappingNode("!tests.utils.Bar", << <<Plain("x"), Hole("x")>> >>)))

HashSpecs ==
    {SpecString(Verbatim(d)) : d \in {DocFooA1, DocFooA2, DocIntKey, DocStrKey}}
    \cup {SpecString(TemplateBar)}

HashContexts == {CtxNone, CtxStr(DocX)}

\* one builder: registrations, builds and normalizations around hash calls,
\* one of which is kept for comparison with a later one
NextHash ==
    \/ \E callables \in UpTo({"Foo"}, MaxPositional),
          named \in NamedArgs({"!Foo"}, {"Bar"}, MaxNamed) :
          RegisterConstructors(callables, named)
    \/ \E callables \in UpTo({"utils"}, MaxPositional) :
          RegisterMultiConstructors(callables, <<>>)
    \/ \E spec \in {SpecString(Verbatim(d)) : d \in {DocFooA1, DocUnclosed}} :
          Build(spec, CtxNone, NoRoot)
    \/ \E spec \in {SpecString(Verbatim(d)) : d \in {DocFooA1, DocUnclosed}},
          sort_keys \in BOOLEAN, raw \in BOOLEAN :
          Normalize(spec, sort_keys, raw, CtxNone, NoRoot)
    \/ \E spec \in HashSpecs, context \in HashContexts, keep \in BOOLEAN :
          Hash(spec, context, NoRoot, keep)

SpecHash == Init /\ [][NextHash]_vars

\* the last call is a hash call that follows a kept one
HashedTwice == last.op = "hash" /\ hashed.kept

\* ... with the same spec, context and root_path
SameInputs ==
    /\ last.spec = hashed.spec
    /\ last.context = hashed.context
    /\ last.root_path = hashed.root_path

\* C6: for a fixed (spec, context, root_path) hash returns the same integer
\* on every call, whatever registrations, builds and normalizations happened
\* before or between the calls, a constructor being registered or not for a
\* tag of the document.
C6_HashStable == (HashedTwice /\ SameInputs) => result = hashed.value

\* two hashes of one document tagged !Foo, the first taken before and the
\* second after !Foo got a constructor
C6_Witness ==
    /\ HashedTwice
    /\ SameInputs
    /\ result.t = "int"
    /\ last.spec = SpecString(Verbatim(DocFooA1))
    /\ "!Foo" \notin DOMAIN hashed.registered_callables
    /\ "!Foo" \in DOMAIN registered_callables

\* v == w on Python values: dicts compare by their items, whatever the order
RECURSIVE SameValue(_, _)
SameValue(v, w) ==
    CASE v.t # w.t -> FALSE
      [] v.t = "list" ->
            /\ Len(v.items) = Len(w.items)
            /\ \A i \in 1..Len(v.items) : SameValue(v.items[i], w.items[i])
      [] v.t = "dict" ->
            /\ Len(v.pairs) = Len(w.pairs)
            /\ \A i \in 1..Len(v.pairs) : \E j \in 1..Len(w.pairs) :
                  /\ v.pairs[i][1] = w.pairs[j][1]
                  /\ SameValue(v.pairs[i][2], w.pairs[j][2])
      [] OTHER -> v = w

\* normalize(spec, raw=True, context, root_path): the canonical value
Canonical(spec, context, root_path) ==
    normalize(yaml_constructors, yaml_multi_constructors,
              spec, FALSE, TRUE, context, root_path).ret

\* C7: two inputs whose canonical values (normalize with raw=True, the keys
\* keeping their parsed type) differ have different hashes, the digest
\* being injective on the text it is given.
C7_HashSeparates ==
    (/\ HashedTwice
     /\ result.t = "int"
     /\ hashed.value.t = "int"
     /\ ~SameValue(Canonical(last.spec, last.context, last.root_path),
                   Canonical(hashed.spec, hashed.context, hashed.root_path))) =>
        result # hashed.value

-----------------------------------------------------------------------------
(* Calls that raise while the document or the context is parsed            *)

FailureSpecs == {SpecString(Verbatim(d)) : d \in {DocFoo, DocFooA1, DocX, DocUnclosed}}

FailureContexts == {CtxNone, CtxStr(DocX), CtxStr(DocUnclosed)}

\* one builder: registrations, then calls on well-formed and malformed text
NextFailure ==
    \/ \E callables \in UpTo({"Foo"}, MaxPositional) :
          RegisterConstructors(callables, <<>>)
    \/ \E callables \in UpTo({"utils"}, MaxPositional) :
          RegisterMultiConstructors(callables, <<>>)
    \/ \E spec \in FailureSpecs, context \in FailureContexts :
          Render(spec, context, NoRoot)
    \/ \E spec \in FailureSpecs, context \in FailureContexts :
          Build(spec, context, NoRoot)
    \/ \E spec \in FailureSpecs, context \in FailureContexts, raw \in BOOLEAN :
          Normalize(spec, FALSE, raw, context, NoRoot)
    \/ \E spec \in FailureSpecs, context \in FailureContexts :
          Hash(spec, context, NoRoot, FALSE)

SpecFailure == Init /\ [][NextFailure]_vars

\* the errors yaml.load raises on a document
YamlErrors == {"ParserError", "ScannerError", "ComposerError", "ConstructorError",
               "DuplicateKeyError"}

\* C4: when the parse inside a normalize, a hash or a string-context render
\* call raises, the constructor and multi-constructor tables consulted by
\* build are after the exception what they were before the call (here: on
\* a builder with a registered tag, which a later build is to instantiate).
C4_TablesSurviveFailure ==
    (/\ last.op \in {"normalize", "normalize_raw", "hash", "render"}
     /\ DOMAIN registered_callables # {}
     /\ IsError(result)
     /\ result.e \in YamlErrors) =>
        (/\ yaml_constructors = last.yaml_constructors
         /\ yaml_multi_constructors = last.yaml_multi_constructors)

-----------------------------------------------------------------------------
(* Threads sharing one builder                                             *)
(*                                                                         *)
(* Each thread runs one build, normalize or hash call; a step is one       *)
(* statement of vanilla_load or of the caller. The tables are attributes   *)
(* of the Constructor class, shared by the threads. A thread captures the  *)
(* constructor dict by reference: dict_id tells the dict objects apart, so *)
(* that an add_constructor on a dict shows in every capture of that dict.  *)
(* The multi-constructor dict is never changed in place by these calls.    *)

\* threads that call the builder
NumThreads == 2

Threads == 1..NumThreads

Job(op, spec) == [spec |-> spec, op |-> op]

ThreadJobs == {Job(op, SpecString(Verbatim(DocFooA1))) : op \in {"build", "normalize", "hash"}}

\* a reference to a dict object, and the frame of a call before it ran
Ref(id, dict) == [id |-> id, dict |-> dict]
NoRef == Ref(-1, <<>>)
NoFrame == [document |-> PyNone, registered_constructors |-> NoRef,
            registered_multi_constructors |-> <<>>, normalized_conf |-> PyNone]

\* the threads start, each with its call
Spawn(jobs) ==
    /\ pc = <<>>
    /\ pc' = [t \in Threads |-> "render"]
    /\ job' = jobs
    /\ local' = [t \in Threads |-> NoFrame]
    /\ tresult' = [t \in Threads |-> PyNone]
    /\ last' = [yaml_constructors |-> yaml_constructors,
                yaml_multi_constructors |-> yaml_multi_constructors,
                op |-> "spawn"]
    /\ UNCHANGED <<registry, tables, warned, result, hashed, other, dict_id>>

\* what a step leaves alone besides the tables and the thread's own state
Shared == <<registry, warned, last, result, hashed, job, other>>

\* document = self.render(spec, context=context, root_path=root_path)
ThreadRender(t) ==
    /\ pc # <<>> /\ pc[t] = "render"
    /\ \E r \in {render(yaml_constructors, yaml_multi_constructors,
                        job[t].spec, CtxNone, NoRoot)} :
          IF IsError(r.ret)
          THEN /\ tresult' = [tresult EXCEPT ![t] = r.ret]
               /\ pc' = [pc EXCEPT ![t] = "done"]
               /\ UNCHANGED local
          ELSE /\ local' = [local EXCEPT ![t].document = r.ret]
               /\ pc' = [pc EXCEPT ![t] = IF job[t].op = "build" THEN "load" ELSE "capture"]
               /\ UNCHANGED tresult
    /\ UNCHANGED <<Shared, tables, dict_id>>

\* build: return self.load(document)
ThreadLoad(t) ==
    /\ pc # <<>> /\ pc[t] = "load"
    /\ tresult' = [tresult EXCEPT ![t] = load(yaml_constructors, yaml_multi_constructors,
                                              local[t].document)]
    /\ pc' = [pc EXCEPT ![t] = "done"]
    /\ UNCHANGED <<Shared, tables, dict_id, local>>

\* vanilla_load: registered_constructors = self.yaml.Constructor.yaml_constructors
ThreadCapture(t) ==
    /\ pc # <<>> /\ pc[t] = "capture"
    /\ local' = [local EXCEPT ![t].registered_constructors = Ref(dict_id, yaml_constructors)]
    /\ pc' = [pc EXCEPT ![t] = "capture_multi"]
    /\ UNCHANGED <<Shared, tables, dict_id, tresult>>

\* vanilla_load: registered_multi_constructors = ...yaml_multi_constructors
ThreadCaptureMulti(t) ==
    /\ pc # <<>> /\ pc[t] = "capture_multi"
    /\ local' = [local EXCEPT ![t].registered_multi_constructors = yaml_multi_constructors]
    /\ pc' = [pc EXCEPT ![t] = "reset"]
    /\ UNCHANGED <<Shared, tables, dict_id, tresult>>

\* an id no dict object in use has
FreshId == 1 + Max({dict_id} \cup {local[u].registered_constructors.id : u \in Threads})

\* _reset_yaml_constructors: yaml_constructors = self._vanilla_yaml_constructors()
ThreadReset(t) ==
    /\ pc # <<>> /\ pc[t] = "reset"
    /\ yaml_constructors' =
          _reset_yaml_constructors(yaml_constructors, yaml_multi_constructors)[1]
    /\ dict_id' = FreshId
    /\ pc' = [pc EXCEPT ![t] = "reset_multi"]
    /\ UNCHANGED <<Shared, yaml_multi_constructors, local, tresult>>

\* _reset_yaml_constructors: yaml_multi_constructors = ...
ThreadResetMulti(t) ==
    /\ pc # <<>> /\ pc[t] = "reset_multi"
    /\ yaml_multi_constructors' =
          _reset_yaml_constructors(yaml_constructors, yaml_multi_constructors)[2]
    /\ pc' = [pc EXCEPT ![t] = "add_wildcard"]
    /\ UNCHANGED <<Shared, yaml_constructors, dict_id, local, tresult>>

\* vanilla_load: self.yaml.Constructor.add_constructor(None, wildcard_constructor),
\* which changes the dict the class holds at that moment, in place
ThreadAddWildcard(t) ==
    /\ pc # <<>> /\ pc[t] = "add_wildcard"
    /\ \E changed \in {add_constructor(yaml_constructors, NoneKey,
                                        wildcard_constructor(FALSE))} :
          /\ yaml_constructors' = changed
          /\ local' = [u \in Threads |->
                         IF local[u].registered_constructors.id = dict_id
                         THEN [local[u] EXCEPT !.registered_constructors.dict = changed]
                         ELSE local[u]]
    /\ pc' = [pc EXCEPT ![t] = "vanilla_parse"]
    /\ UNCHANGED <<Shared, yaml_multi_constructors, dict_id, tresult>>

\* vanilla_load: normalized_conf = self.yaml.load(document), with the tables
\* the class holds at that moment; a raise ends the call
ThreadVanillaParse(t) ==
    /\ pc # <<>> /\ pc[t] = "vanilla_parse"
    /\ \E normalized_conf \in {yaml_load(yaml_constructors, yaml_multi_constructors,
                                          local[t].document)} :
          IF IsError(normalized_conf)
          THEN /\ tresult' = [tresult EXCEPT ![t] = normalized_conf]
               /\ pc' = [pc EXCEPT ![t] = "done"]
               /\ UNCHANGED local
          ELSE /\ local' = [local EXCEPT ![t].normalized_conf = normalized_conf]
               /\ pc' = [pc EXCEPT ![t] = "restore"]
               /\ UNCHANGED tresult
    /\ UNCHANGED <<Shared, tables, dict_id>>

\* vanilla_load: self.yaml.Constructor.yaml_constructors = registered_constructors
ThreadRestore(t) ==
    /\ pc # <<>> /\ pc[t] = "restore"
    /\ yaml_constructors' = local[t].registered_constructors.dict
    /\ dict_id' = local[t].registered_constructors.id
    /\ pc' = [pc EXCEPT ![t] = "restore_multi"]
    /\ UNCHANGED <<Shared, yaml_multi_constructors, local, tresult>>

\* vanilla_load: ...yaml_multi_constructors = registered_multi_constructors
ThreadRestoreMulti(t) ==
    /\ pc # <<>> /\ pc[t] = "restore_multi"
    /\ yaml_multi_constructors' = local[t].registered_multi_constructors
    /\ pc' = [pc EXCEPT ![t] = "return"]
    /\ UNCHANGED <<Shared, yaml_constructors, dict_id, local, tresult>>

\* normalize: return json.dumps(normalized_conf, indent=2, sort_keys=sort_keys);
\* hash: the digest of that text, the keys sorted
ThreadReturn(t) ==
    /\ pc # <<>> /\ pc[t] = "return"
    /\ \E text \in {json_dumps(local[t].normalized_conf, job[t].op = "hash")} :
          tresult' = [tresult EXCEPT ![t] =
                         IF job[t].op = "hash" /\ ~IsError(text)
                         THEN sha3_256_int(text.s) ELSE text]
    /\ pc' = [pc EXCEPT ![t] = "done"]
    /\ UNCHANGED <<Shared, tables, dict_id, local>>

\* registrations first (none is in flight once the threads run), then the
\* threads, one statement at a time, in any order
NextThreads ==
    \/ pc = <<>> /\ RegisterConstructors(<<"Foo">>, <<>>)
    \/ \E jobs \in [Threads -> ThreadJobs] : Spawn(jobs)
    \/ \E t \in Threads :
          \/ ThreadRender(t)
          \/ ThreadLoad(t)
          \/ ThreadCapture(t)
          \/ ThreadCaptureMulti(t)
          \/ ThreadReset(t)
          \/ ThreadResetMulti(t)
          \/ ThreadAddWildcard(t)
          \/ ThreadVanillaParse(t)
          \/ ThreadRestore(t)
          \/ ThreadRestoreMulti(t)
          \/ ThreadReturn(t)

SpecThreads == Init /\ [][NextThreads]_vars

\* every thread has returned or raised
AllDone == pc # <<>> /\ \A t \in Threads : pc[t] = "done"

\* what the call returns when no other thread runs, from the tables the
\* threads started with
Alone(j) ==
    CASE j.op = "build" ->
            build(last.yaml_constructors, last.yaml_multi_constructors,
                  j.spec, CtxNone, NoRoot).ret
      [] j.op = "normalize" ->
            normalize(last.yaml_constructors, last.yaml_multi_constructors,
                      j.spec, FALSE, FALSE, CtxNone, NoRoot).ret
      [] j.op = "hash" ->
            hash(last.yaml_constructors, last.yaml_multi_constructors,
                 j.spec, CtxNone, NoRoot).ret

\* C5: when normalize, hash and build calls run concurrently on one builder
\* (no registration in flight), whatever the interleaving, each build
\* constructs the registered tags through their targets and each normalize
\* or hash returns what it returns alone, and once all have finished the
\* tables are what they were before the calls started (here: with the tag
\* of the documents registered).
C5_ThreadsDoNotInterfere ==
    (AllDone /\ "!Foo" \in DOMAIN registered_callables) =>
        /\ \A t \in Threads : tresult[t] = Alone(job[t])
        /\ yaml_constructors = last.yaml_constructors
        /\ yaml_multi_constructors = last.yaml_multi_constructors

-----------------------------------------------------------------------------
(* The adapter of from_yaml_constructor on scalar and sequence nodes       *)

\* items of a sequence node, at most
MaxItems == 2

\* an element of a sequence: its text and its node
Item(text, node) == [text |-> text, node |-> node]

\* 1, [1, 2], !Bar, !Dice 10d6, !d 10d6
Items ==
    {Item("1", Plain("1")),
     Item("[1, 2]", YSeq(<<Plain("1"), Plain("2")>>)),
     Item("!Bar", ScalarNode("!Bar", "")),
     Item("!Dice 10d6", ScalarNode("!Dice", "10d6")),
     Item("!d 10d6", ScalarNode("!d", "10d6"))}

\* "!Foo abc": a tagged scalar
LeafDoc(tag, text) ==
    Document(IF text = "" THEN tag ELSE tag \o " " \o text, ScalarNode(tag, text))

\* "!Foo [1, !Bar]": a tagged flow sequence
SequenceDoc(tag, items) ==
    Document(tag \o " [" \o join(", ", [i \in 1..Len(items) |-> items[i].text]) \o "]",
             SequenceNode(tag, [i \in 1..Len(items) |-> items[i].node]))

ShapeSpecs ==
    {SpecString(Verbatim(d)) :
        d \in {LeafDoc(tag, text) : tag \in {"!Foo", "!Bar", "!Dice"}, text \in {"", "abc", "0"}}
              \cup {SequenceDoc(tag, items) : tag \in {"!Foo", "!Bar", "!Dice"},
                                              items \in UpTo(Items, MaxItems)}}

\* one builder: registrations under default and given tags, builds of tagged
\* scalars and sequences
NextShape ==
    \/ \E callables \in UpTo({"Foo", "Bar", "Dice"}, MaxPositional),
          named \in NamedArgs({"!Dice", "!d"}, {"Foo", "Dice"}, MaxNamed) :
          RegisterConstructors(callables, named)
    \/ \E spec \in ShapeSpecs : Build(spec, CtxNone, NoRoot)

SpecShape == Init /\ [][NextShape]_vars

\* what an element of a built sequence is to become: a tagged one what its
\* registered target constructs from it, another one its plain value
Resolved(node) ==
    IF node.tag \in DOMAIN registered_callables
    THEN ThroughTarget(registered_callables[node.tag], node)
    ELSE construct_object(_vanilla_yaml_constructors, _vanilla_yaml_multi_constructors, node)

\* the positional arguments the shape rules give the target of the built node
ShapeArgs ==
    IF BuiltNode.kind = "ScalarNode"
    THEN (IF BuiltNode.value = "" THEN <<>> ELSE <<PyStr(BuiltNode.value)>>)
    ELSE [i \in 1..Len(BuiltNode.items) |-> Resolved(BuiltNode.items[i])]

\* the last call built a scalar or sequence node bound to a target without
\* from_yaml, and every element of the sequence resolves
BuiltPlainShape ==
    /\ last.op = "build"
    /\ BuiltNode.kind \in {"ScalarNode", "SequenceNode"}
    /\ BuiltNode.tag \in DOMAIN registered_callables
    /\ ~has_from_yaml(registered_callables[BuiltNode.tag])
    /\ \A i \in 1..Len(ShapeArgs) : ~IsError(ShapeArgs[i])

\* C11: a scalar or sequence node bound to a target without from_yaml
\* invokes the target with no keyword argument and, positionally, nothing
\* for an empty scalar, the text of a non-empty scalar, and the elements of
\* a sequence in order, each tagged element built by its registered target.
C11_ScalarAndSequence ==
    BuiltPlainShape => result = call(registered_callables[BuiltNode.tag], ShapeArgs, <<>>)

-----------------------------------------------------------------------------
(* Targets with their own from_yaml                                        *)

\* documents tagged for Dice: by its default tag, by a given tag, through the
\* namespace tests.utils under its default prefix and under a given one
CustomDocs ==
    {LeafDoc(tag, "10d6") : tag \in {"!Dice", "!d", "!tests.utils.Dice", "!utils.Dice"}}
    \cup {SequenceDoc(tag, <<Item("1", Plain("1")), Item("2", Plain("2"))>>) :
            tag \in {"!Dice", "!d", "!utils.Dice"}}
    \cup {MappingDoc(tag, <<Entry("a: 1", "a", Plain("1")), Entry("b: 2", "b", Plain("2")), Absent>>) :
            tag \in {"!Dice", "!d", "!utils.Dice"}}

CustomSpecs == {SpecString(Verbatim(d)) : d \in CustomDocs}

\* one builder: direct and namespace registrations, builds of nodes tagged
\* for Dice
NextCustom ==
    \/ \E callables \in UpTo({"Foo", "Dice"}, MaxPositional),
          named \in NamedArgs({"!d", "!Dice"}, {"Dice", "Foo"}, MaxNamed) :
          RegisterConstructors(callables, named)
    \/ \E callables \in UpTo({"utils"}, MaxPositional),
          named \in NamedArgs({"!utils", "!utils."}, {"utils"}, MaxNamed) :
          RegisterMultiConstructors(callables, named)
    \/ \E spec \in CustomSpecs : Build(spec, CtxNone, NoRoot)

SpecCustom == Init /\ [][NextCustom]_vars

\* the prefixes of registered_multi_callables a tag starts with
Prefixes(tag) == {p \in DOMAIN registered_multi_callables : startswith(tag, p)}

\* the target a tag is bound to: by registered_callables, else as a member of
\* the namespace whose prefix it starts with; "None" when it is unbound
Bound(tag) ==
    IF tag \in DOMAIN registered_callables THEN registered_callables[tag]
    ELSE IF Cardinality(Prefixes(tag)) = 1
         THEN LET p == CHOOSE q \in Prefixes(tag) : TRUE
                  path == lstrip(SubSeq(tag, Len(p) + 1, Len(tag)), attr_sep)
              IN  IF path = "" THEN registered_multi_callables[p]
                  ELSE attrgetter(path, registered_multi_callables[p])
    ELSE "None"

\* C12: building a node tagged for a target that has a from_yaml, the tag
\* bound directly (the default tag or a given one) or through a namespace,
\* returns what target.from_yaml(loader, node) returns or raises; the shape
\* rules are not applied.
C12_CustomBuilderDelegates ==
    (last.op = "build" /\ has_from_yaml(Bound(BuiltNode.tag))) =>
        result = Dice_from_yaml(BuiltNode)

-----------------------------------------------------------------------------
(* Namespace dispatch                                                      *)

\* tags under the prefixes !utils, !tests.utils, !tests and !Foo: no suffix,
\* separators only, a member, a dotted path, an unknown member at the first
\* and at the last component of the path
NamespaceTags ==
    {"!utils", "!utils.", "!utils.Bar", "!utils..Bar", "!utilsBar", "!utils.Nope",
     "!tests.utils.Bar", "!tests..utils.Bar", "!tests.utils.Nope", "!tests.Nope.Bar",
     "!tests.utils.Dice", "!Foo", "!Foo.Bar"}

NamespaceSpecs ==
    {SpecString(Verbatim(d)) :
        d \in {LeafDoc(tag, text) : tag \in NamespaceTags, text \in {"", "10d6"}}
              \cup {SequenceDoc(tag, <<Item("1", Plain("1"))>>) : tag \in NamespaceTags}}

\* one builder: namespaces registered under default and given prefixes,
\* builds of tags under them
NextNamespace ==
    \/ \E callables \in UpTo({"utils", "tests", "Foo"}, MaxPositional),
          named \in NamedArgs({"!utils."}, {"utils", "tests"}, MaxNamed) :
          RegisterMultiConstructors(callables, named)
    \/ \E spec \in NamespaceSpecs : Build(spec, CtxNone, NoRoot)

SpecNamespace == Init /\ [][NextNamespace]_vars

\* the last call built a node whose tag starts with one registered prefix
BuiltInNamespace ==
    /\ last.op = "build"
    /\ BuiltNode.tag \notin DOMAIN registered_callables
    /\ Cardinality(Prefixes(BuiltNode.tag)) = 1

\* C13: a tag prefix + suffix dispatched to the namespace bound to prefix
\* resolves, the leading separators of the suffix stripped, to the namespace
\* itself when nothing remains and else to the member at the end of the
\* dotted path, which then builds the node; when a component of the path
\* does not exist the build raises the lookup error and returns no object.
C13_NamespaceResolves ==
    BuiltInNamespace =>
        result = IF Bound(BuiltNode.tag) = "None" THEN Error("AttributeError")
                 ELSE ThroughTarget(Bound(BuiltNode.tag), BuiltNode)

\* a member reached by a dotted path of two components, after two separators
C13_Witness ==
    /\ BuiltInNamespace
    /\ BuiltNode.tag = "!tests..utils.Bar"
    /\ Prefixes(BuiltNode.tag) = {"!tests"}
    /\ result = PyObject("Bar", <<>>, <<>>)

-----------------------------------------------------------------------------
(* Normalization of tagged nodes                                           *)

\* "!Foo [!Bar, !Dice 10d6]": tagged nodes inside the payload of a tagged node
DocNested ==
    SequenceDoc("!Foo", <<Item("!Bar", ScalarNode("!Bar", "")),
                          Item("!Dice 10d6", ScalarNode("!Dice", "10d6"))>>)
\* "a: !Foo {b: !tests.utils.Bar}"
DocDeep ==
    Document("a: !Foo {b: !tests.utils.Bar}",
             YMap(<< <<Plain("a"),
                       MappingNode("!Foo", << <<Plain("b"),
                                                ScalarNode("!tests.utils.Bar", "")>> >>)>> >>))
\* "!Foo 1" and "!unknown x": scalar payloads, the second tag never registered
DocFoo1 == LeafDoc("!Foo", "1")
DocUnknown == LeafDoc("!unknown", "x")
\* "x: !Foo 1", a context with a tagged value
DocXFoo == Document("x: !Foo 1", YMap(<< <<Plain("x"), ScalarNode("!Foo", "1")>> >>))

NormalSpecs ==
    {SpecString(Verbatim(d)) : d \in {DocFooA1, DocNested, DocDeep, DocFoo1, DocUnknown, DocX}}
    \cup {SpecString(TemplateA)}

NormalContexts == {CtxNone, CtxStr(DocX), CtxStr(DocXFoo)}

\* one builder: registrations of the tags of the documents, then render,
\* build, normalize and hash calls
NextNormal ==
    \/ \E callables \in UpTo({"Foo", "Bar", "Dice"}, MaxPositional) :
          RegisterConstructors(callables, <<>>)
    \/ \E callables \in UpTo({"utils"}, MaxPositional) :
          RegisterMultiConstructors(callables, <<>>)
    \/ \E spec \in NormalSpecs, context \in NormalContexts :
          Render(spec, context, NoRoot)
    \/ \E spec \in NormalSpecs, context \in NormalContexts :
          Build(spec, context, NoRoot)
    \/ \E spec \in NormalSpecs, context \in NormalContexts, raw \in BOOLEAN :
          Normalize(spec, FALSE, raw, context, NoRoot)
    \/ \E spec \in NormalSpecs, context \in NormalContexts :
          Hash(spec, context, NoRoot, FALSE)

SpecNormal == Init /\ [][NextNormal]_vars

\* the value a node stands for when no target is invoked: a node of a
\* primitive type its plain value, another one {tag: data(node)}, or null
\* when unknown tags are ignored
RECURSIVE Normal(_, _)
Normal(node, ignore_unknown) ==
    LET items == [i \in 1..Len(node.items) |-> Normal(node.items[i], ignore_unknown)]
        pairs == [i \in 1..Len(node.pairs) |-> <<Normal(node.pairs[i][1], ignore_unknown),
                                                 Normal(node.pairs[i][2], ignore_unknown)>>]
    IN  CASE node.tag = YamlTag("null") -> PyNone
          [] node.tag = YamlTag("bool") -> PyBool(node.value \in {"true", "True"})
          [] node.tag = YamlTag("int") -> PyInt(StrToInt(node.value))
          [] node.tag = YamlTag("str") -> PyStr(node.value)
          [] node.tag = YamlTag("seq") -> PyList(items)
          [] node.tag = YamlTag("map") -> PyDict(pairs)
          [] OTHER ->
                IF ignore_unknown THEN PyNone
                ELSE PyDict(<< <<PyStr(node.tag),
                                 CASE node.kind = "ScalarNode" -> PyStr(node.value)
                                   [] node.kind = "SequenceNode" -> PyList(items)
                                   [] node.kind = "MappingNode" -> PyDict(pairs)>> >>)

\* the variables a string context defines, its unknown tags ignored
NormalEnv ==
    IF last.context.kind = "str" THEN Normal(last.context.document.root, TRUE).pairs ELSE <<>>

\* the tree of the rendered document of the last call
RenderedRoot == fill(last.spec.template.document.root, NormalEnv)

\* an instance of a registered target occurs in the value
RECURSIVE HasObject(_)
HasObject(v) ==
    CASE v.t = "object" -> TRUE
      [] v.t = "list" -> \E i \in 1..Len(v.items) : HasObject(v.items[i])
      [] v.t = "dict" -> \E i \in 1..Len(v.pairs) :
                            HasObject(v.pairs[i][1]) \/ HasObject(v.pairs[i][2])
      [] OTHER -> FALSE

\* C14: normalize gives every node whose tag is not a primitive type the
\* value {tag: data(node)}, the tagged nodes inside it converted the same
\* way, a constructor or multi-constructor being registered for the tag or
\* not, and invokes no target; a string context is parsed with such nodes
\* replaced by null.
C14_NormalizeBypassesRegistry ==
    /\ last.op = "normalize_raw" =>
          (result = Normal(RenderedRoot, FALSE) /\ ~HasObject(result))
    /\ last.op = "normalize" => result = json_dumps(Normal(RenderedRoot, FALSE), FALSE)
    /\ (last.op = "render" /\ last.context.kind = "str") =>
          result.root = RenderedRoot

\* a tagged node with tagged nodes inside, all three tags registered
C14_Witness ==
    /\ last.op = "normalize_raw"
    /\ last.spec = SpecString(Verbatim(DocNested))
    /\ {"!Foo", "!Bar", "!Dice"} \subseteq DOMAIN registered_callables
    /\ result = PyDict(<< <<PyStr("!Foo"),
                            PyList(<<PyDict(<< <<PyStr("!Bar"), PyStr("")>> >>),
                                     PyDict(<< <<PyStr("!Dice"), PyStr("10d6")>> >>)>>)>> >>)

-----------------------------------------------------------------------------
(* Errors of the parser and the note load adds to them                     *)

\* lines of a document, at most
MaxLines == 7

\* a block sequence of n lines "- 0", "- 1", ... with the line at index at
\* replaced
LinesWith(n, at, line) ==
    join("\n", [i \in 1..n |-> IF i = at + 1 THEN line ELSE "- " \o IntToStr(i - 1)])

\* "- 0\n- 1\n- *value\n- 3": an alias that names no anchor; the composer
\* raises with the mark of the alias and no context
AliasDoc(n, at) ==
    Malformed(LinesWith(n, at, "- *value"), YAMLError("ComposerError", Mark(at, 2), NoMark))

\* "- 0\n@\n- 2": a character that starts no token; the scanner raises with
\* the mark of the character and no context
ScanDoc(n, at) ==
    Malformed(LinesWith(n, at, "@"), YAMLError("ScannerError", Mark(at, 0), NoMark))

\* "- 0\n- [1, 2[": a flow sequence that is not closed; the parser raises
\* with the mark of the token and, as context, the mark of the sequence
FlowDoc(n, at) ==
    Malformed(LinesWith(n, at, "- [1, 2["), YAMLError("ParserError", Mark(at, 7), Mark(at, 2)))

\* "!Dice xdy": Dice.from_yaml raises ValueError, an error with no mark
DocDiceX == LeafDoc("!Dice", "xdy")

\* "- 0\n- 1": a document the parser accepts
WellFormed(n) ==
    Document(LinesWith(n, n, ""), YSeq([i \in 1..n |-> Plain(IntToStr(i - 1))]))

\* the number of lines of a document and the index of one of them
LineOf == {p \in (1..MaxLines) \X (0..(MaxLines - 1)) : p[2] < p[1]}

ExcerptDocs ==
    UNION {{AliasDoc(p[1], p[2]), ScanDoc(p[1], p[2]), FlowDoc(p[1], p[2])} : p \in LineOf}
    \cup {WellFormed(n) : n \in 1..MaxLines}
    \cup {DocUnclosed, DocDiceX}

ExcerptSpecs == {SpecString(Verbatim(d)) : d \in ExcerptDocs}

\* one builder: builds and normalizations of malformed and well-formed text
NextExcerpt ==
    \/ \E callables \in UpTo({"Dice"}, MaxPositional) :
          RegisterConstructors(callables, <<>>)
    \/ \E spec \in ExcerptSpecs : Build(spec, CtxNone, NoRoot)
    \/ \E spec \in ExcerptSpecs, raw \in BOOLEAN :
          Normalize(spec, FALSE, raw, CtxNone, NoRoot)

SpecExcerpt == Init /\ [][NextExcerpt]_vars

\* the document the last call rendered (a spec given verbatim)
BuiltDocument == last.spec.template.document

\* the last call is a build whose parse raised the error of the document
BuildFailedToParse == last.op = "build" /\ last.parsed /\ ~BuiltDocument.ok

\* the text load puts before the excerpt
Around == "\n\nError occurred around here:\n\n"

\* C15: a parse failure inside load / build that carries a source location,
\* the line and the column being any numbers from 0 on, is re-raised as the
\* same error with a note holding the excerpt; a failure with no location
\* is re-raised as it is.
C15_LocatedErrorsAnnotated ==
    /\ BuildFailedToParse =>
          /\ IsError(result)
          /\ result.e = BuiltDocument.error.e
          /\ result.problem_mark = BuiltDocument.error.problem_mark
          /\ startswith(result.note, Around)
    /\ (last.op = "build" /\ last.parsed /\ BuiltDocument.ok
        /\ IsError(construct_object(yaml_constructors, yaml_multi_constructors,
                                    BuiltDocument.root))) =>
          result = construct_object(yaml_constructors, yaml_multi_constructors,
                                    BuiltDocument.root)

\* the last call is a build whose parse raised and load added its note
Annotated ==
    /\ BuildFailedToParse
    /\ IsError(result)
    /\ "note" \in DOMAIN result
    /\ startswith(result.note, Around)

\* the lines of the document with the indices from lo to hi, both included
LinesFromTo(document, lo, hi) ==
    SubSeq(splitlines(document.text), lo + 1, hi + 1)

\* C20: the excerpt load adds for an error at line L of a document of n
\* lines is made of the lines max(0, L-3) to min(n-1, L+3) in order; it is
\* not empty and holds line L.
C20_ExcerptAroundLine ==
    Annotated =>
        LET L == BuiltDocument.error.problem_mark.line
            n == Len(splitlines(BuiltDocument.text))
        IN  result.note = Around
                \o join("\n", LinesFromTo(BuiltDocument, Max({0, L - 3}), Min({n - 1, L + 3})))

-----------------------------------------------------------------------------
(* Two builders                                                            *)

\* ConfBuilder() made twice: each instance has registries of its own, and
\* self.yaml.Constructor is the one SafeConstructor class for both, so the
\* live tables are the same objects. The caller turns to the other instance:
\* the calls that follow are made on it.
SwitchInstance ==
    /\ registered_callables' = other.registered_callables
    /\ registered_multi_callables' = other.registered_multi_callables
    /\ other' = [registered_callables |-> registered_callables,
                 registered_multi_callables |-> registered_multi_callables,
                 name |-> IF other.name = "B" THEN "A" ELSE "B"]
    /\ last' = [name |-> other.name, op |-> "self"]
    /\ result' = PyNone
    /\ warned' = EmptyBag
    /\ UNCHANGED <<tables, hashed, threads>>

\* "!utils.Bar"
DocUtilsDotBar == LeafDoc("!utils.Bar", "")

InstanceSpecs == {SpecString(Verbatim(d)) : d \in {DocFoo1, DocUnknown, DocUtilsDotBar}}

\* builders A and B: registrations of plain classes and of a namespace, and
\* build, normalize and hash calls, on either
NextInstances ==
    \/ SwitchInstance
    \/ \E callables \in UpTo({"Foo", "Bar"}, MaxPositional),
          named \in NamedArgs({"!Foo"}, {"Bar"}, MaxNamed) :
          RegisterConstructors(callables, named)
    \/ \E callables \in UpTo({"utils"}, MaxPositional) :
          RegisterMultiConstructors(callables, <<>>)
    \/ \E spec \in InstanceSpecs : Build(spec, CtxNone, NoRoot)
    \/ \E spec \in InstanceSpecs, raw \in BOOLEAN : Normalize(spec, FALSE, raw, CtxNone, NoRoot)
    \/ \E spec \in InstanceSpecs : Hash(spec, CtxNone, NoRoot, FALSE)

SpecInstances == Init /\ [][NextInstances]_vars

\* C16: a build on one of two builders dispatches the tag of the document
\* through the bindings registered on that builder only: it returns what the
\* target bound there constructs, and a tag bound on the other builder alone
\* is unknown to it (ConstructorError).
C16_InstancesIndependent ==
    last.op = "build" =>
        result = IF Bound(BuiltNode.tag) = "None" THEN Error("ConstructorError")
                 ELSE ThroughTarget(Bound(BuiltNode.tag), BuiltNode)

-----------------------------------------------------------------------------
(* Registration of the members of namespaces                               *)

\* the namespaces: tests.utils, the test module (which imports os, utils,
\* Foo, Bar, Dice, ComposerError and YAMLError) and os of the standard library
Namespaces == {"utils", "test_modularyze", "os"}

\* dir(module), sorted, without the names no filter lets through ("__doc__"
\* stands for the module's double-underscore attributes; of os, a class, a
\* private class, the alias error = OSError and a string)
dir(module) ==
    CASE module = "utils" -> <<"Bar", "Dice", "Foo", "__doc__">>
      [] module = "test_modularyze" ->
             <<"Bar", "ComposerError", "Dice", "Foo", "YAMLError", "__doc__", "os", "utils">>
      [] module = "os" -> <<"PathLike", "_Environ", "__doc__", "error", "sep">>
      [] OTHER -> <<>>

\* attr.__module__ of a class
__module__(attr) ==
    CASE attr \in Classes -> "tests.utils"
      [] attr = "ComposerError" -> "ruamel.yaml.composer"
      [] attr = "YAMLError" -> "ruamel.yaml.error"
      [] attr \in {"PathLike", "_Environ"} -> "os"
      [] OTHER -> "builtins"

\* module.__package__: a top-level module has the empty string
__package__(module) == IF module = "os" THEN "" ELSE "tests"

is_class(attr_name, attr, module) ==
    attr \in Classes \cup {"ComposerError", "YAMLError", "PathLike", "_Environ", "OSError"}

is_public(attr_name, attr, module) == ~startswith(attr_name, "_")

\* no class here has an __all__
is_local(attr_name, attr, module) == startswith(__module__(attr), __package__(module))

\* all(f(attr_name, attr, module) for f in [is_class, is_public, is_local])
filter_funcs(attr_name, attr, module) ==
    /\ is_class(attr_name, attr, module)
    /\ is_public(attr_name, attr, module)
    /\ is_local(attr_name, attr, module)

\* {f"{prefix}{attr_sep}{attr.__name__}": attr for attr_name, attr in attrs
\*  if all(...)}, attrs being the first n names of dir(module) with getattr
RECURSIVE named_callables(_, _, _)
named_callables(prefix, module, n) ==
    IF n = 0 THEN <<>>
    ELSE LET attr_name == dir(module)[n]
             attr == getattr(module, attr_name)
             rest == named_callables(prefix, module, n - 1)
         IN  IF filter_funcs(attr_name, attr, module)
             THEN OPut(rest, prefix \o attr_sep \o name(attr), attr)
             ELSE rest

\* the loop of register_constructors_from_modules over all_callables.items():
\* a register_constructors(**named_callables) call per module,
\* b: the registries, the live table and the warnings so far
RECURSIVE register_modules(_, _)
register_modules(b, all_callables) ==
    IF Len(all_callables) = 0 THEN b
    ELSE LET prefix == rstrip(all_callables[1][1], attr_sep)
             module == all_callables[1][2]
             v == _validate_callables(<<>>, named_callables(prefix, module, Len(dir(module))),
                                      b.registered_callables, b.registered_multi_callables)
         IN  register_modules(
                 [b EXCEPT !.registered_callables = AsFn(v.all_callables) @@ @,
                           !.yaml_constructors = register_all(@, v.all_callables),
                           !.warned = @ (+) v.warned],
                 Tail(all_callables))

\* ConfBuilder.register_constructors_from_modules(*modules, **named_modules)
RegisterConstructorsFromModules(modules, named_modules) ==
    \E v \in {_validate_callables(modules, named_modules,
                                   registered_callables, registered_multi_callables)} :
      \E b \in {register_modules([registered_callables |-> registered_callables,
                                  registered_multi_callables |-> registered_multi_callables,
                                  yaml_constructors |-> yaml_constructors,
                                  warned |-> v.warned], v.all_callables)} :
        /\ registered_callables' = b.registered_callables
        /\ yaml_constructors' = b.yaml_constructors
        /\ warned' = b.warned
        /\ last' = [registered_callables |-> registered_callables,
                    registered_multi_callables |-> registered_multi_callables,
                    yaml_constructors |-> yaml_constructors, all_callables |-> v.all_callables,
                    op |-> "register_constructors_from_modules",
                    modules |-> modules,
                    named_modules |-> named_modules]
        /\ result' = PyNone
        /\ UNCHANGED <<registered_multi_callables, yaml_multi_constructors, hashed, threads, other>>

ModuleDocs ==
    {LeafDoc("!utils.Foo", "1"), LeafDoc("!utils.Dice", "10d6"), LeafDoc("!os.error", "")}

\* one builder: registrations of namespaces' members, of single targets under
\* tags and prefixes these may meet, and builds
NextModules ==
    \/ \E modules \in UpTo(Namespaces, MaxPositional),
          named_modules \in NamedArgs({"!utils"}, {"utils"}, MaxNamed) :
          RegisterConstructorsFromModules(modules, named_modules)
    \/ \E named \in NamedArgs({"!utils", "!utils.Foo"}, {"Foo", "Bar"}, MaxNamed) :
          RegisterConstructors(<<>>, named)
    \/ \E named \in NamedArgs({"!utils"}, {"utils", "tests"}, MaxNamed) :
          RegisterMultiConstructors(<<>>, named)
    \/ \E d \in ModuleDocs : Build(SpecString(Verbatim(d)), CtxNone, NoRoot)

SpecModules == Init /\ [][NextModules]_vars

\* the names of dir(module) that pass the three default predicates
Passing(module) ==
    {dir(module)[i] : i \in {j \in 1..Len(dir(module)) :
        filter_funcs(dir(module)[j], getattr(module, dir(module)[j]), module)}}

\* the bindings the members of the i-th namespace of the last call are to
\* get: prefix + separator + the member's name in the namespace -> the member
MemberBindings(i) ==
    LET prefix == last.all_callables[i][1]
        module == last.all_callables[i][2]
    IN  [tag \in {prefix \o attr_sep \o n : n \in Passing(module)} |->
            getattr(module, CHOOSE n \in Passing(module) : tag = prefix \o attr_sep \o n)]

\* the bindings of all the namespaces of the last call, in the order of the call
RECURSIVE Members(_)
Members(n) == IF n = 0 THEN <<>> ELSE MemberBindings(n) @@ Members(n - 1)

\* the handler register_constructors is to install for a target
Handler(cls) == IF has_from_yaml(cls) THEN custom_from_yaml(cls) ELSE from_yaml_constructor(cls)

\* the registry after the call binds the passing members under their tags and
\* is otherwise as before
C17_RegistryPart ==
    registered_callables = Members(Len(last.all_callables)) @@ last.registered_callables

\* the live table has the handlers of these members and is otherwise as before
C17_TablePart ==
    LET E == Members(Len(last.all_callables))
    IN  /\ DOMAIN yaml_constructors = DOMAIN E \cup DOMAIN last.yaml_constructors
        /\ \A tag \in DOMAIN yaml_constructors :
               yaml_constructors[tag] = IF tag \in DOMAIN E THEN Handler(E[tag])
                                        ELSE last.yaml_constructors[tag]

\* the warnings are those of the members' registrations, for each member bound
\* before to another target: here, with one namespace per call, those of
\* register_constructors(**bindings)
C17_CollisionPart ==
    Len(last.all_callables) = 1 =>
        warned = SetToBag(_warn_override(MemberBindings(1), last.registered_callables))

\* C17: register_constructors_from_modules registers, for each namespace,
\* exactly the members that pass is_class, is_public and is_local, each under
\* prefix + separator + the name the member has in the namespace, and warns
\* for these registrations as register_constructors does.
C17_ModuleMembersRegistered ==
    last.op = "register_constructors_from_modules" =>
        /\ C17_RegistryPart
        /\ C17_TablePart
        /\ C17_CollisionPart

-----------------------------------------------------------------------------
(* One call naming a tag twice                                             *)

\* one builder: register_constructors calls that give a class positionally
\* and a target under the key of its default tag, with and without a trailing
\* separator; builds of that tag
NextCollision ==
    \/ \E callables \in UpTo({"Foo", "Bar"}, MaxPositional),
          named \in NamedArgs({"!Foo", "!Foo.", "!Bar"}, {"Foo", "Bar"}, MaxNamed) :
          RegisterConstructors(callables, named)
    \/ \E d \in {DocFoo1, LeafDoc("!Bar", "")} : Build(SpecString(Verbatim(d)), CtxNone, NoRoot)

SpecCollision == Init /\ [][NextCollision]_vars

\* the last call was register_constructors(cls, **{key: target}) with key,
\* its trailing separators stripped, the default tag of cls, a tag not bound
\* before the call
SameTagTwice ==
    /\ last.op = "register_constructors"
    /\ Len(last.callables) = 1
    /\ Len(last.named) = 1
    /\ rstrip(last.named[1][1], attr_sep) = default_tag_name(last.callables[1])
    /\ default_tag_name(last.callables[1]) \notin DOMAIN last.registered_callables
    /\ default_tag_name(last.callables[1]) \notin DOMAIN last.registered_multi_callables

\* C18: when one register_constructors call names a tag both by a positional
\* target and by a key, a collision warning is emitted if and only if the
\* two targets differ, and the tag is bound to the named target.
C18_SameCallCollision ==
    SameTagTwice =>
        /\ (warned # EmptyBag) <=> (last.callables[1] # last.named[1][2])
        /\ registered_callables[default_tag_name(last.callables[1])] = last.named[1][2]

-----------------------------------------------------------------------------
(* What a parse without the registry leaves behind                         *)

\* ConfBuilder.vanilla_load(document, ignore_unknown), called on its own
VanillaLoad(document, ignore_unknown) ==
    \E r \in {vanilla_load(yaml_constructors, yaml_multi_constructors, document, ignore_unknown)} :
        /\ Returns("vanilla_load", SpecString(Verbatim(document)), CtxNone, NoRoot,
                   Call(r.C, r.M, r.ret, TRUE))
        /\ UNCHANGED hashed

FrameDocs == {DocFooA1, DocUnclosed}

FrameSpecs == {SpecString(Verbatim(d)) : d \in FrameDocs} \cup {SpecString(TemplateA)}

FrameContexts == {CtxNone, CtxStr(DocXFoo), CtxStr(DocUnclosed)}

\* one builder: registrations, then builds and parses without the registry,
\* of well-formed and malformed text
NextFrame ==
    \/ \E callables \in UpTo({"Foo", "Bar", "Dice"}, MaxPositional) :
          RegisterConstructors(callables, <<>>)
    \/ \E callables \in UpTo({"utils"}, MaxPositional) :
          RegisterMultiConstructors(callables, <<>>)
    \/ \E spec \in FrameSpecs, context \in FrameContexts :
          Build(spec, context, NoRoot)
    \/ \E document \in FrameDocs, ignore_unknown \in BOOLEAN :
          VanillaLoad(document, ignore_unknown)
    \/ \E spec \in FrameSpecs, context \in FrameContexts, raw \in BOOLEAN :
          Normalize(spec, FALSE, raw, context, NoRoot)
    \/ \E spec \in FrameSpecs, context \in FrameContexts :
          Hash(spec, context, NoRoot, FALSE)

SpecFrame == Init /\ [][NextFrame]_vars

\* the last call was a vanilla_load, a normalize or a hash that returned
ParsedWithoutRegistry ==
    /\ last.op \in {"vanilla_load", "normalize", "normalize_raw", "hash"}
    /\ ~IsError(result)

\* C19: a vanilla_load, normalize or hash call that returns normally leaves
\* the live constructor table, the live multi-constructor table,
\* registered_callables and registered_multi_callables as they were before
\* the call, and a build of a document after it gives what it gave before.
C19_FrameOfVanillaLoad ==
    ParsedWithoutRegistry =>
        /\ yaml_constructors = last.yaml_constructors
        /\ yaml_multi_constructors = last.yaml_multi_constructors
        /\ registered_callables = last.registered_callables
        /\ registered_multi_callables = last.registered_multi_callables
        /\ \A d \in {DocFooA1, DocNested} :
               build(yaml_constructors, yaml_multi_constructors,
                     SpecString(Verbatim(d)), CtxNone, NoRoot).ret
                 = build(last.yaml_constructors, last.yaml_multi_constructors,
                         SpecString(Verbatim(d)), CtxNone, NoRoot).ret

\* a normalize of a document tagged !Foo with a string context, on a builder
\* whose live table has a handler for !Foo: both parses went through the
\* reset tables and the handler is still there
C19_Witness ==
    /\ last.op = "normalize"
    /\ result.t = "str"
    /\ last.spec = SpecString(Verbatim(DocFooA1))
    /\ last.context = CtxStr(DocXFoo)
    /\ "!Foo" \in DOMAIN last.yaml_constructors
    /\ "!Foo" \in DOMAIN yaml_constructors
    /\ NoneKey \in DOMAIN yaml_constructors
    /\ yaml_constructors[NoneKey] = [h |-> "construct_undefined"]

-----------------------------------------------------------------------------
(* The live tables against the registries                                  *)

TableSpecs == {SpecString(Verbatim(d)) : d \in {DocFoo1, DocUnclosed}}

\* one builder, its tables reset at the start: registrations under given
\* and default tags, then build, normalize and hash calls on well-formed and
\* malformed text
NextTables ==
    \/ \E callables \in UpTo({"Foo"}, MaxPositional),
          named \in NamedArgs({"!a", "!d"}, {"Foo", "Dice"}, MaxNamed) :
          RegisterConstructors(callables, named)
    \/ \E callables \in UpTo({"utils"}, MaxPositional),
          named \in NamedArgs({"!utils."}, {"utils"}, MaxNamed) :
          RegisterMultiConstructors(callables, named)
    \/ \E spec \in TableSpecs : Build(spec, CtxNone, NoRoot)
    \/ \E spec \in TableSpecs, raw \in BOOLEAN : Normalize(spec, FALSE, raw, CtxNone, NoRoot)
    \/ \E spec \in TableSpecs : Hash(spec, CtxNone, NoRoot, FALSE)

SpecTables == Init /\ [][NextTables]_vars

\* the tags of the live constructor table other than those of the primitive
\* types and the key None
CustomTags == DOMAIN yaml_constructors \ DOMAIN _vanilla_yaml_constructors

\* C21: after any register_constructors, register_multi_constructors, build,
\* normalize and hash calls on one builder that started with reset tables,
\* the non-primitive tags of the live constructor table are the keys of
\* registered_callables and the prefixes of the live multi-constructor table
\* are the keys of registered_multi_callables.
C21_TablesMatchRegistries ==
    /\ CustomTags = DOMAIN registered_callables
    /\ OKeys(yaml_multi_constructors) = DOMAIN registered_multi_callables

====
